---------------------------- MODULE Spec2Model ----------------------------
(***************************************************************************)
(* Model of the validation-and-transformation pipeline of                  *)
(* assessment_client: text normalisation, row sanitation, the competency   *)
(* cross-check, the answers/tasks join and the payload assembly.           *)
(*                                                                         *)
(* A text is a sequence of one-character strings; a missing cell (pandas   *)
(* NaN) is the value NaN.  A table (DataFrame) is a record                 *)
(*   [columns |-> set of column names, rows |-> sequence of rows]          *)
(* where a row is a function from the table's columns to cells and the     *)
(* row at position p carries the pandas index p - 1.                       *)
(*                                                                         *)
(* Column names of the Russian spreadsheets are transliterated:            *)
(*   "Kompetentsii"      = 'Компетенции'                                   *)
(*   "Nazvanie_zadaniya" = 'Название задания'                              *)
(*   "Nazvanie_glavy"    = 'Название главы'                                *)
(*   "Otvet_uchastnika"  = 'Ответ участника'                               *)
(*   "Data_otpravki"     = 'Дата отправки'                                 *)
(*   "Vopros"            = 'Вопрос'                                        *)
(*   "Tip_otsenki"       = 'Тип оценки'                                    *)
(*   "Indikatory"        = 'Индикаторы'                                    *)
(*   "FIO"               = 'ФИО'                                           *)
(*   "Pozitsiya"         = 'Позиция'                                       *)
(***************************************************************************)
EXTENDS Integers, Sequences, FiniteSets, TLC

VARIABLES
    pc,              \* "start", or the name of the operation that has run
    df_competency,   \* the competency matrix table
    df_qa,           \* the answers table handed to the validator
    errors,          \* validate_competency_data: its local list of messages
    raised,          \* the exception the operation raised (type "none": it returned)
    df,              \* drop_rows_with_nan: the table
    required_cols,   \* drop_rows_with_nan: the required-column list
    warnings,        \* st.warning diagnostics emitted, in order
    scanned,         \* drop_rows_with_nan: rows visited by the scan
    cleaned_df,      \* drop_rows_with_nan: the returned table
    df1,             \* df_from_files: sheet of participants' results
    df2,             \* df_from_files: the tasks table
    joined,          \* df_from_files: whether pd.merge was performed
    merged_df,       \* df_from_files: the returned table
    competency_file, \* process_all_inputs: the matrix file, or None
    assessment_info, \* process_all_inputs: the context text
    assessment_type, \* process_all_inputs: the type of the assessment
    competency_matrix, \* process_all_inputs: the list of competencies, or None
    all_payloads,    \* process_all_inputs: the returned (email, payload) items
    answers_file,    \* render: the uploaded results file, or None
    tasks_file,      \* render: the uploaded tasks file, or None
    results,         \* render: what process_all_inputs returned to the page
    idx,             \* render: payloads the submission loop has gone through
    api_calls,       \* the calls of send_to_assessment_api, in order, with what each returned
    st_calls,        \* render: the kinds of the messages put on the page, in order
    file1,           \* process_excel_files: the table of the matrix file
    file2,           \* process_excel_files: the table of the answers file
    raw_text,        \* clean_text: its argument, a text or None
    cleaned_text,    \* clean_text: what it returned
    request,         \* process_all_inputs: the combined_request of the loop turn under way
    lists            \* the per-category processors: the list each one is building

pipelineVars ==
    <<competency_file, assessment_info, assessment_type, competency_matrix, all_payloads>>

legacyVars == <<file1, file2>>

textVars == <<raw_text, cleaned_text>>

transformVars == <<request, lists>>

pageVars == <<answers_file, tasks_file, results, idx, api_calls, st_calls>>

vars == <<pc, df_competency, df_qa, errors, raised, df, required_cols,
          warnings, scanned, cleaned_df, df1, df2, joined, merged_df, pipelineVars,
          pageVars, legacyVars, textVars, transformVars>>

-----------------------------------------------------------------------------
(* Generic helpers *)

Min(a, b) == IF a < b THEN a ELSE b

Range(s) == {s[i] : i \in 1..Len(s)}

SeqsUpTo(S, n) == UNION {[1..k -> S] : k \in 0..n}

\* df.head(n) / list[:n]
Take(s, n) == SubSeq(s, 1, Min(n, Len(s)))

\* the elements of s that satisfy the mask, order kept
RECURSIVE SelectMask(_, _)
SelectMask(s, mask) ==
    IF s = <<>> THEN <<>>
    ELSE (IF Head(mask) THEN <<Head(s)>> ELSE <<>>) \o SelectMask(Tail(s), Tail(mask))

\* the positions p with mask[p], ascending
PositionsOf(mask) == SelectMask([p \in 1..Len(mask) |-> p], mask)

\* Series.unique(): first occurrences, order kept
RECURSIVE Unique(_)
Unique(s) ==
    IF s = <<>> THEN <<>>
    ELSE LET init == Unique(SubSeq(s, 1, Len(s) - 1))
             last == s[Len(s)]
         IN  IF last \in Range(init) THEN init ELSE Append(init, last)

-----------------------------------------------------------------------------
(* Texts *)

NaN == <<"NaN">>

EmptyText == <<>>

Whitespace == {" ", "\n"}

\* ord(c) of the characters used
CharCode(c) ==
    CASE c = "\n" -> 10
      [] c = " "  -> 32
      [] c = "("  -> 40
      [] c = ")"  -> 41
      [] c = ","  -> 44
      [] c = ";"  -> 59
      [] c = "A"  -> 65
      [] c = "B"  -> 66
      [] c = "a"  -> 97
      [] c = "b"  -> 98
      [] c = "c"  -> 99
      [] c = "n"  -> 110
      [] OTHER    -> 120

\* Python's str < str
RECURSIVE TextLess(_, _)
TextLess(s, t) ==
    IF t = <<>> THEN FALSE
    ELSE IF s = <<>> THEN TRUE
    ELSE IF Head(s) = Head(t) THEN TextLess(Tail(s), Tail(t))
    ELSE CharCode(Head(s)) < CharCode(Head(t))

\* sorted(set of texts)
RECURSIVE Sorted(_)
Sorted(S) ==
    IF S = {} THEN <<>>
    ELSE LET least == CHOOSE x \in S : \A y \in S \ {x} : TextLess(x, y)
         IN  <<least>> \o Sorted(S \ {least})

RECURSIVE LStrip(_)
LStrip(s) ==
    IF s # <<>> /\ Head(s) \in Whitespace THEN LStrip(Tail(s)) ELSE s

RECURSIVE RStrip(_)
RStrip(s) ==
    IF s # <<>> /\ s[Len(s)] \in Whitespace THEN RStrip(SubSeq(s, 1, Len(s) - 1)) ELSE s

\* str.strip()
Strip(s) == RStrip(LStrip(s))

\* re.sub(r'\s+', ' ', s)
RECURSIVE CollapseSpaces(_)
CollapseSpaces(s) ==
    IF s = <<>> THEN <<>>
    ELSE IF Head(s) \in Whitespace
         THEN <<" ">> \o CollapseSpaces(LStrip(Tail(s)))
         ELSE <<Head(s)>> \o CollapseSpaces(Tail(s))

\* str(value) of a cell: a text is itself, NaN prints as 'nan'
Str(value) == IF value = NaN THEN <<"n", "a", "n">> ELSE value

\* Series.fillna(value)
FillNa(cell, value) == IF cell = NaN THEN value ELSE cell

normalize_spaces(text) == Strip(CollapseSpaces(Str(text)))

\* str.contains over a set of characters
ContainsAny(s, chars) == \E i \in 1..Len(s) : s[i] \in chars

\* str.split(sep) for a one-character separator
RECURSIVE Split(_, _)
Split(s, sep) ==
    IF ~ContainsAny(s, {sep}) THEN <<s>>
    ELSE LET i == CHOOSE k \in 1..Len(s) :
                      s[k] = sep /\ \A j \in 1..(k - 1) : s[j] # sep
         IN  <<SubSeq(s, 1, i - 1)>> \o Split(SubSeq(s, i + 1, Len(s)), sep)

\* [part.strip() for part in value.split(',') if part.strip()]
SplitParts(value) ==
    LET parts == Split(value, ",")
        keep  == [p \in 1..Len(parts) |-> Strip(parts[p]) # <<>>]
    IN  SelectMask([p \in 1..Len(parts) |-> Strip(parts[p])], keep)

-----------------------------------------------------------------------------
(* Tables *)

Table(cols, rows) == [columns |-> cols, rows |-> rows]

\* no table: the call returned none
NoTable == Table({}, <<>>)

\* df[col] as a sequence of cells
Column(t, col) == [p \in 1..Len(t.rows) |-> t.rows[p][col]]

\* df[col].fillna('').astype(str).map(normalize_spaces)
NormalizedColumn(t, col) ==
    [p \in 1..Len(t.rows) |-> normalize_spaces(Str(FillNa(t.rows[p][col], EmptyText)))]


-----------------------------------------------------------------------------
(* validate_competency_data, modules/validation.py *)

\* One violation message.  kind names the fixed wording, rows the spreadsheet
\* row numbers printed, items the values echoed, more the trailing " ...".
\*   "no_competency_column": "В матрице компетенций отсутствует колонка 'competency'."
\*   "matrix_comma":         "Матрица компетенций, строки <rows>: запрещены запятые
\*                            в названии. Исправьте: <items>[ ...]"
\*   "matrix_parentheses":   "Матрица компетенций, строки <rows>: уберите текст в
\*                            скобках из 'competency'. Найдены: <items>[ ...]"
\*   "matrix_empty":         "Матрица компетенций, строки <rows>: пустые значения в
\*                            колонке 'competency'."
\*   "no_qa_column":         "В таблице ответов отсутствует колонка 'Компетенции'."
\*   "qa_parentheses":       "Уберите текст в скобках в колонке 'Компетенции' таблицы
\*                            ответов. Примеры: Email <e>: <value>; ...[ ...]"
\*   "missing_in_matrix":    "В таблице ответов найдены компетенции без соответствий
\*                            в матрице: <items>"
\*   "missing_in_qa":        "В матрице компетенций есть названия, которых нет в
\*                            таблице ответов: <items>"
Msg(kind, rows, items, more) ==
    [kind |-> kind, rows |-> rows, items |-> items, more |-> more]

\* the number of values a message echoes before " ..."
MaxShown == 5

NoError == [type |-> "none", message |-> <<>>]

\* "\n".join(errors): the lines with a line break between neighbours
LineBreak == Msg("\n", <<>>, <<>>, FALSE)

RECURSIVE JoinLines(_)
JoinLines(lines) ==
    IF Len(lines) <= 1 THEN lines
    ELSE <<Head(lines), LineBreak>> \o JoinLines(Tail(lines))

ValueError(lines) == [type |-> "ValueError", message |-> JoinLines(lines)]

\* pandas: df.loc[mask, [..]] with a label that is no column
KeyError(label) ==
    [type |-> "KeyError", message |-> <<Msg("not in index", <<>>, <<label>>, FALSE)>>]

\* the row number without the header row
ExcelRow_no_header(p) == (p - 1) + 1

\* spreadsheet row number of the row at position p (index p - 1): i + 2
ExcelRow(p) == (p - 1) + 2

\* rows = [str(i + 2) for i in matrix_names[mask].index[:5]]
MaskRows(mask) ==
    LET ps == Take(PositionsOf(mask), MaxShown)
    IN  [k \in 1..Len(ps) |-> ExcelRow(ps[k])]

\* lines 50, 52
matrix_names(dfc) ==
    IF "competency" \notin dfc.columns THEN <<>>
    ELSE NormalizedColumn(dfc, "competency")

\* the comma check without .unique(): a repeated name is echoed again
CommaErrors_repeats(names) ==
    LET comma_mask == [p \in 1..Len(names) |-> ContainsAny(names[p], {","})]
        offending  == SelectMask(names, comma_mask)
    IN  IF \E p \in 1..Len(names) : comma_mask[p]
        THEN <<Msg("matrix_comma", MaskRows(comma_mask),
                   Take(offending, MaxShown), Len(offending) > MaxShown)>>
        ELSE <<>>

\* lines 54-62
CommaErrors(names) ==
    LET comma_mask == [p \in 1..Len(names) |-> ContainsAny(names[p], {","})]
        offending  == Unique(SelectMask(names, comma_mask))
    IN  IF \E p \in 1..Len(names) : comma_mask[p]
        THEN <<Msg("matrix_comma", MaskRows(comma_mask),
                   Take(offending, MaxShown), Len(offending) > MaxShown)>>
        ELSE <<>>

\* lines 64-72
ParenthesesErrors(names) ==
    LET parentheses_mask == [p \in 1..Len(names) |-> ContainsAny(names[p], {"(", ")"})]
        offending        == Unique(SelectMask(names, parentheses_mask))
    IN  IF \E p \in 1..Len(names) : parentheses_mask[p]
        THEN <<Msg("matrix_parentheses", MaskRows(parentheses_mask),
                   Take(offending, MaxShown), Len(offending) > MaxShown)>>
        ELSE <<>>

\* lines 74-79
EmptyErrors(names) ==
    LET empty_mask == [p \in 1..Len(names) |-> names[p] = EmptyText]
    IN  IF \E p \in 1..Len(names) : empty_mask[p]
        THEN <<Msg("matrix_empty", MaskRows(empty_mask), <<>>, FALSE)>>
        ELSE <<>>

\* lines 48-79: the messages of the matrix block
MatrixErrors(dfc) ==
    IF "competency" \notin dfc.columns
    THEN <<Msg("no_competency_column", <<>>, <<>>, FALSE)>>
    ELSE CommaErrors(matrix_names(dfc)) \o ParenthesesErrors(matrix_names(dfc))
             \o EmptyErrors(matrix_names(dfc))

\* lines 83, 85
qa_competencies_series(dfq) ==
    IF "Kompetentsii" \notin dfq.columns THEN <<>>
    ELSE NormalizedColumn(dfq, "Kompetentsii")

\* line 87
qa_parentheses_mask(dfq) ==
    [p \in 1..Len(qa_competencies_series(dfq)) |->
        ContainsAny(qa_competencies_series(dfq)[p], {"(", ")"})]

\* line 89: df_qa.loc[qa_parentheses_mask, ['Email', 'Компетенции']] needs both columns
OffendingRowsRaise(dfq) ==
    /\ "Kompetentsii" \in dfq.columns
    /\ \E p \in 1..Len(dfq.rows) : qa_parentheses_mask(dfq)[p]
    /\ "Email" \notin dfq.columns

\* the examples with " ..." already at five offending rows
QaParenthesesErrors_off_by_one(dfq) ==
    LET offending_rows == SelectMask(dfq.rows, qa_parentheses_mask(dfq))
        shown          == Take(offending_rows, MaxShown)
        details        == [k \in 1..Len(shown) |->
                              <<Str(shown[k]["Email"]), Str(shown[k]["Kompetentsii"])>>]
    IN  IF offending_rows # <<>>
        THEN <<Msg("qa_parentheses", <<>>, details, Len(offending_rows) >= MaxShown)>>
        ELSE <<>>

\* lines 89-97: the examples quote the cells of df_qa as they are in the table
QaParenthesesErrors(dfq) ==
    LET offending_rows == SelectMask(dfq.rows, qa_parentheses_mask(dfq))
        shown          == Take(offending_rows, MaxShown)
        details        == [k \in 1..Len(shown) |->
                              <<Str(shown[k]["Email"]), Str(shown[k]["Kompetentsii"])>>]
    IN  IF offending_rows # <<>>
        THEN <<Msg("qa_parentheses", <<>>, details, Len(offending_rows) > MaxShown)>>
        ELSE <<>>

\* lines 81-97: the messages of the answers block
QaErrors(dfq) ==
    IF "Kompetentsii" \notin dfq.columns
    THEN <<Msg("no_qa_column", <<>>, <<>>, FALSE)>>
    ELSE QaParenthesesErrors(dfq)

\* lines 99-104
qa_competency_names(dfq) ==
    UNION {Range(SplitParts(qa_competencies_series(dfq)[p])) :
              p \in 1..Len(qa_competencies_series(dfq))}

\* line 106
matrix_name_set(dfc) == Range(matrix_names(dfc)) \ {EmptyText}

\* the difference taken against the matrix cells as written, not normalized
missing_in_matrix_raw_names(dfc, dfq) ==
    Sorted(qa_competency_names(dfq)
           \ (IF "competency" \in dfc.columns THEN Range(Column(dfc, "competency")) ELSE {}))

\* line 108
missing_in_matrix(dfc, dfq) == Sorted(qa_competency_names(dfq) \ matrix_name_set(dfc))

\* line 109, commented out in the source
missing_in_qa(dfc, dfq) == Sorted(matrix_name_set(dfc) \ qa_competency_names(dfq))

\* the reference check with lines 109 and 116-120 restored
ReferenceErrors_symmetric(dfc, dfq) ==
    (IF missing_in_matrix(dfc, dfq) # <<>>
     THEN <<Msg("missing_in_matrix", <<>>, missing_in_matrix(dfc, dfq), FALSE)>>
     ELSE <<>>)
    \o (IF missing_in_qa(dfc, dfq) # <<>>
        THEN <<Msg("missing_in_qa", <<>>, missing_in_qa(dfc, dfq), FALSE)>>
        ELSE <<>>)

\* lines 111-115 (lines 109 and 116-120, the reverse check, are commented out)
ReferenceErrors(dfc, dfq) ==
    IF missing_in_matrix(dfc, dfq) # <<>>
    THEN <<Msg("missing_in_matrix", <<>>, missing_in_matrix(dfc, dfq), FALSE)>>
    ELSE <<>>

\* the call stops at a missing 'competency' column
validate_competency_data_short_circuit(dfc, dfq) ==
    LET all == IF "competency" \notin dfc.columns THEN MatrixErrors(dfc)
               ELSE MatrixErrors(dfc) \o QaErrors(dfq) \o ReferenceErrors(dfc, dfq)
    IN  [errors |-> all,
         raised |-> IF all # <<>> THEN ValueError(all) ELSE NoError]

\* lines 45-123: the local list errors when the call ends, and what it raises
validate_competency_data(dfc, dfq) ==
    IF OffendingRowsRaise(dfq)
    THEN [errors |-> MatrixErrors(dfc), raised |-> KeyError("Email")]
    ELSE LET all == MatrixErrors(dfc) \o QaErrors(dfq) \o ReferenceErrors(dfc, dfq)
         IN  [errors |-> all,
              raised |-> IF all # <<>> THEN ValueError(all) ELSE NoError]

-----------------------------------------------------------------------------
(* validate_competency_data of the single-page application, src/app.py.     *)
(* It reads the matrix names from the column 'name', prints no row numbers  *)
(* and also checks the reverse direction; its answers block (lines 79-102)  *)
(* is the text of modules/validation.py lines 81-104.                       *)

\* app.py lines 53, 55
legacy_matrix_names(dfc) ==
    IF "name" \notin dfc.columns THEN <<>> ELSE NormalizedColumn(dfc, "name")

\* app.py lines 51-77
LegacyMatrixErrors(dfc) ==
    LET names            == legacy_matrix_names(dfc)
        comma_mask       == [p \in 1..Len(names) |-> ContainsAny(names[p], {","})]
        parentheses_mask == [p \in 1..Len(names) |-> ContainsAny(names[p], {"(", ")"})]
        with_comma       == Unique(SelectMask(names, comma_mask))
        with_parentheses == Unique(SelectMask(names, parentheses_mask))
    IN  IF "name" \notin dfc.columns
        THEN <<Msg("no_name_column", <<>>, <<>>, FALSE)>>
        ELSE (IF with_comma # <<>>
              THEN <<Msg("matrix_comma", <<>>, Take(with_comma, MaxShown),
                         Len(with_comma) > MaxShown)>>
              ELSE <<>>)
             \o (IF with_parentheses # <<>>
                 THEN <<Msg("matrix_parentheses", <<>>, Take(with_parentheses, MaxShown),
                            Len(with_parentheses) > MaxShown)>>
                 ELSE <<>>)
             \o (IF \E p \in 1..Len(names) : names[p] = EmptyText
                 THEN <<Msg("matrix_empty", <<>>, <<>>, FALSE)>>
                 ELSE <<>>)

\* app.py line 104
legacy_matrix_name_set(dfc) == Range(legacy_matrix_names(dfc)) \ {EmptyText}

\* app.py line 106
legacy_missing_in_matrix(dfc, dfq) ==
    Sorted(qa_competency_names(dfq) \ legacy_matrix_name_set(dfc))

\* app.py line 107
legacy_missing_in_qa(dfc, dfq) ==
    Sorted(legacy_matrix_name_set(dfc) \ qa_competency_names(dfq))

\* the reference check without its second half
LegacyReferenceErrors_one_way(dfc, dfq) ==
    IF legacy_missing_in_matrix(dfc, dfq) # <<>>
    THEN <<Msg("missing_in_matrix", <<>>, legacy_missing_in_matrix(dfc, dfq), FALSE)>>
    ELSE <<>>

\* app.py lines 109-118
LegacyReferenceErrors(dfc, dfq) ==
    (IF legacy_missing_in_matrix(dfc, dfq) # <<>>
     THEN <<Msg("missing_in_matrix", <<>>, legacy_missing_in_matrix(dfc, dfq), FALSE)>>
     ELSE <<>>)
    \o (IF legacy_missing_in_qa(dfc, dfq) # <<>>
        THEN <<Msg("missing_in_qa", <<>>, legacy_missing_in_qa(dfc, dfq), FALSE)>>
        ELSE <<>>)

\* app.py lines 48-121
legacy_validate_competency_data(dfc, dfq) ==
    IF OffendingRowsRaise(dfq)
    THEN [errors |-> LegacyMatrixErrors(dfc), raised |-> KeyError("Email")]
    ELSE LET all == LegacyMatrixErrors(dfc) \o QaErrors(dfq) \o LegacyReferenceErrors(dfc, dfq)
         IN  [errors |-> all,
              raised |-> IF all # <<>> THEN ValueError(all) ELSE NoError]

-----------------------------------------------------------------------------
(* drop_rows_with_nan, modules/validation.py *)

\* a check that stops at the first missing column
MissingColumns_first_only(cols, t) ==
    Take(SelectMask(cols, [k \in 1..Len(cols) |-> cols[k] \notin t.columns]), 1)

\* line 21 / processing.py line 147: [col for col in cols if col not in df.columns]
MissingColumns(cols, t) ==
    SelectMask(cols, [k \in 1..Len(cols) |-> cols[k] \notin t.columns])

\* line 27: [col for col in required_cols if pd.isna(row[col])]
nan_columns(row, cols) ==
    SelectMask(cols, [k \in 1..Len(cols) |-> row[cols[k]] = NaN])

\* lines 25-29: the positions of the rows to drop
rows_to_drop(t, cols) ==
    PositionsOf([p \in 1..Len(t.rows) |-> nan_columns(t.rows[p], cols) # <<>>])

\* lines 34-39: "<dataset>: строка <row> удалена из-за NaN в колонках: <columns>"
DropWarnings(t, cols) ==
    [k \in 1..Len(rows_to_drop(t, cols)) |->
        [row     |-> ExcelRow(rows_to_drop(t, cols)[k]),
         columns |-> nan_columns(t.rows[rows_to_drop(t, cols)[k]], cols)]]

\* line 41: df.drop(index=...).reset_index(drop=True)
DropRows(t, cols) ==
    Table(t.columns,
          SelectMask(t.rows, [p \in 1..Len(t.rows) |-> nan_columns(t.rows[p], cols) = <<>>]))

\* line 23: "<dataset>: отсутствуют обязательные колонки: <columns>"
MissingColumnsError(cols) ==
    [type |-> "ValueError", message |-> <<Msg("missing_required_columns", <<>>, cols, FALSE)>>]

\* lines 20-42
drop_rows_with_nan(t, cols) ==
    IF MissingColumns(cols, t) # <<>>
    THEN [raised   |-> MissingColumnsError(MissingColumns(cols, t)),
          scanned  |-> 0,
          warnings |-> <<>>,
          returned |-> NoTable]
    ELSE [raised   |-> NoError,
          scanned  |-> Len(t.rows),
          warnings |-> DropWarnings(t, cols),
          returned |-> IF rows_to_drop(t, cols) = <<>> THEN t ELSE DropRows(t, cols)]

-----------------------------------------------------------------------------
(* df_from_files, modules/processing.py *)

\* lines 129-136
cols_answers ==
    <<"FIO", "Email", "Nazvanie_glavy", "Nazvanie_zadaniya", "Data_otpravki",
      "Otvet_uchastnika">>

\* lines 139-145
cols_tasks ==
    <<"Nazvanie_zadaniya", "Vopros", "Tip_otsenki", "Kompetentsii", "Indikatory">>

\* df[cols]: the table cut down to the listed columns
Project(t, cols) ==
    Table(Range(cols), [p \in 1..Len(t.rows) |-> [c \in Range(cols) |-> t.rows[p][c]]])

\* line 137: df1[cols_answers] with a label that is no column of df1
AnswersKeyError(t) ==
    [type |-> "KeyError",
     message |-> <<Msg("not in index", <<>>, MissingColumns(cols_answers, t), FALSE)>>]

\* lines 149-152: "The tasks Excel file is missing required column(s): <columns>"
MissingTaskColumnsError(cols) ==
    [type |-> "ValueError", message |-> <<Msg("missing_task_columns", <<>>, cols, FALSE)>>]

\* the tasks table joined with its unnamed rows left in
DropNaTaskName_keeps_all(t) == t

\* line 154: dropna(subset=["Название задания"])
DropNaTaskName(t) ==
    Table(t.columns,
          SelectMask(t.rows, [p \in 1..Len(t.rows) |-> t.rows[p]["Nazvanie_zadaniya"] # NaN]))

\* the dtype pandas gives a column of texts and blanks: float64 when every
\* cell of a non-empty column is blank, object otherwise
KeyDtype(t, key) ==
    IF t.rows # <<>> /\ \A p \in 1..Len(t.rows) : t.rows[p][key] = NaN
    THEN "float64" ELSE "object"

\* line 156, pd.merge refusing its keys: both sides have rows and one key
\* column is numeric while the other holds texts
MergeKeysRefused(left, right, key) ==
    /\ left.rows # <<>> /\ right.rows # <<>>
    /\ KeyDtype(left, key) # KeyDtype(right, key)

\* "You are trying to merge on float64 and object columns for key ..."
MergeDtypeError ==
    [type |-> "ValueError", message |-> <<Msg("merge_dtype", <<>>, <<>>, FALSE)>>]

\* one row of the join: the cells of the left row and those of the right row
JoinedRow(l, r) ==
    [c \in DOMAIN l \cup DOMAIN r |-> IF c \in DOMAIN l THEN l[c] ELSE r[c]]

\* the rows of right that carry the key of the left row l, in right's order
Matches(l, right, key) ==
    SelectMask(right.rows, [q \in 1..Len(right.rows) |-> right.rows[q][key] = l[key]])

\* line 156: pd.merge(left, right, on=key, how="inner"), left order kept
RECURSIVE MergedRows(_, _, _)
MergedRows(lrows, right, key) ==
    IF lrows = <<>> THEN <<>>
    ELSE [k \in 1..Len(Matches(Head(lrows), right, key)) |->
             JoinedRow(Head(lrows), Matches(Head(lrows), right, key)[k])]
         \o MergedRows(Tail(lrows), right, key)

\* a join that looks up one task row per answer row
MergeInner_first_match(left, right, key) ==
    Table(left.columns \cup right.columns,
          MergedRows(left.rows,
                     Table(right.columns,
                           SelectMask(right.rows,
                                      [q \in 1..Len(right.rows) |->
                                          \A q2 \in 1..(q - 1) :
                                              right.rows[q2][key] # right.rows[q][key]])),
                     key))

MergeInner(left, right, key) ==
    Table(left.columns \cup right.columns, MergedRows(left.rows, right, key))

\* lines 158-163: "Не удалось сопоставить задания между файлами: ... Проверьте, что
\* названия заданий совпадают (учитывая пробелы, опечатки и регистр букв) ..."
JoinEmptyError ==
    [type |-> "ValueError", message |-> <<Msg("join_empty", <<>>, <<>>, FALSE)>>]

Failed(error) == [raised |-> error, joined |-> FALSE, returned |-> NoTable]

\* lines 115-164, from the two tables read
df_from_files(answers, tasks) ==
    IF MissingColumns(cols_answers, answers) # <<>>
    THEN Failed(AnswersKeyError(answers))
    ELSE IF MissingColumns(cols_tasks, tasks) # <<>>
    THEN Failed(MissingTaskColumnsError(MissingColumns(cols_tasks, tasks)))
    ELSE LET df_answers_filtered == Project(answers, cols_answers)
             df_tasks_filtered   == DropNaTaskName(Project(tasks, cols_tasks))
             merged == MergeInner(df_answers_filtered, df_tasks_filtered,
                                  "Nazvanie_zadaniya")
         IN  IF MergeKeysRefused(df_answers_filtered, df_tasks_filtered,
                                 "Nazvanie_zadaniya")
             THEN Failed(MergeDtypeError)
             ELSE IF merged.rows = <<>>
             THEN [raised |-> JoinEmptyError, joined |-> TRUE, returned |-> NoTable]
             ELSE [raised |-> NoError, joined |-> TRUE, returned |-> merged]

-----------------------------------------------------------------------------
(* process_competency_file, modules/processing.py *)

\* Python's None, and a value that is not None
None == [none |-> TRUE]

Some(v) == [none |-> FALSE, value |-> v]

\* modules/config.py line 1
REQUIRED_COMPETENCY_COLUMNS ==
    <<"name", "description", "level_0", "level_1", "level_2", "level_3">>

\* line 72
level_columns == <<"level_0", "level_1", "level_2", "level_3">>

\* row.get(col, default)
RowGet(row, col, default) == IF col \in DOMAIN row THEN row[col] ELSE default

Digits == {"0", "1", "2", "3", "4", "5", "6", "7", "8", "9"}

\* the float 50.0, written by its digits
DefaultWeight == <<"5", "0">>

\* lines 97-101: float(weight_val), 50.0 when it does not parse; a blank cell
\* is the float nan and parses as itself
Float(value) ==
    IF value = NaN THEN NaN
    ELSE IF Strip(value) # <<>> /\ \A i \in 1..Len(Strip(value)) : Strip(value)[i] \in Digits
    THEN Strip(value)
    ELSE DefaultWeight

\* lines 84-91
Indicator(row) ==
    [name        |-> normalize_spaces(RowGet(row, "indicator_name", EmptyText)),
     description |-> normalize_spaces(RowGet(row, "indicator_description", EmptyText)),
     levels      |-> [lvl \in Range(level_columns) |->
                         IF RowGet(row, lvl, NaN) # NaN THEN Strip(Str(row[lvl]))
                         ELSE EmptyText]]

\* lines 97-108
Competency(row) ==
    [competency             |-> row["competency"],
     competency_description |-> row["competency_description"],
     weight                 |-> Float(RowGet(row, "weight", DefaultWeight)),
     indicators             |-> <<Indicator(row)>>]

\* a loop that never looks a name up: every named row opens a competency
RECURSIVE GroupRows_no_merge(_, _)
GroupRows_no_merge(rows, matrix) ==
    IF rows = <<>> THEN matrix
    ELSE IF Head(rows)["competency"] = EmptyText
    THEN GroupRows_no_merge(Tail(rows), matrix)
    ELSE GroupRows_no_merge(Tail(rows), Append(matrix, Competency(Head(rows))))

\* a loop that puts the indicator of a later row before the earlier ones
RECURSIVE GroupRows_newest_first(_, _)
GroupRows_newest_first(rows, matrix) ==
    IF rows = <<>> THEN matrix
    ELSE LET row  == Head(rows)
             seen == {k \in 1..Len(matrix) : matrix[k].competency = row["competency"]}
         IN  IF row["competency"] = EmptyText
             THEN GroupRows_newest_first(Tail(rows), matrix)
             ELSE IF seen # {}
             THEN GroupRows_newest_first(Tail(rows),
                            [matrix EXCEPT ![CHOOSE k \in seen : TRUE].indicators =
                                               <<Indicator(row)>> \o @])
             ELSE GroupRows_newest_first(Tail(rows), Append(matrix, Competency(row)))

\* lines 78-110: the loop over the rows, competency_matrix being the list built
\* so far
RECURSIVE GroupRows(_, _)
GroupRows(rows, matrix) ==
    IF rows = <<>> THEN matrix
    ELSE LET row  == Head(rows)
             seen == {k \in 1..Len(matrix) : matrix[k].competency = row["competency"]}
         IN  IF row["competency"] = EmptyText
             THEN GroupRows(Tail(rows), matrix)
             ELSE IF seen # {}
             THEN GroupRows(Tail(rows),
                            [matrix EXCEPT ![CHOOSE k \in seen : TRUE].indicators =
                                               Append(@, Indicator(row))])
             ELSE GroupRows(Tail(rows), Append(matrix, Competency(row)))

\* lines 65-70: the two key text columns normalised
NormalizedKeyColumns(t) ==
    Table(t.columns,
          [p \in 1..Len(t.rows) |->
              [t.rows[p] EXCEPT
                  !["competency"] = normalize_spaces(FillNa(@, EmptyText)),
                  !["competency_description"] = normalize_spaces(FillNa(@, EmptyText))]])

\* a matrix file that fails sanitation gives an empty matrix
process_competency_file_lenient(file) ==
    [raised |-> NoError, warnings |-> <<>>, returned |-> <<>>]

\* lines 36-112, from the table read
process_competency_file(file) ==
    LET cleaned == drop_rows_with_nan(file, REQUIRED_COMPETENCY_COLUMNS)
    IN  IF cleaned.raised # NoError
        THEN [raised |-> cleaned.raised, warnings |-> cleaned.warnings, returned |-> <<>>]
        ELSE IF "competency" \notin file.columns
        THEN [raised |-> KeyError("competency"), warnings |-> cleaned.warnings,
              returned |-> <<>>]
        ELSE IF "competency_description" \notin file.columns
        THEN [raised |-> KeyError("competency_description"),
              warnings |-> cleaned.warnings, returned |-> <<>>]
        ELSE [raised   |-> NoError,
              warnings |-> cleaned.warnings,
              returned |-> GroupRows(NormalizedKeyColumns(cleaned.returned).rows, <<>>)]

-----------------------------------------------------------------------------
(* process_all_inputs and the task processors, modules/processing.py *)

\* str.replace(old, ''): every occurrence of old removed, left to right
RECURSIVE RemoveAll(_, _)
RemoveAll(s, old) ==
    IF Len(s) < Len(old) THEN s
    ELSE IF SubSeq(s, 1, Len(old)) = old
    THEN RemoveAll(SubSeq(s, Len(old) + 1, Len(s)), old)
    ELSE <<Head(s)>> \o RemoveAll(Tail(s), old)

\* the carriage-return artifact of Excel
Artifact == <<"_", "x", "0", "0", "0", "D", "_">>

\* modules/validation.py lines 6-12
clean_text(text) == RemoveAll(Strip(CollapseSpaces(Str(text))), Artifact)

\* lines 14-33, on cells that are texts or blank
safe_value(value, default) ==
    IF value = NaN THEN default
    ELSE IF Strip(value) = <<>> THEN default
    ELSE value

\* str.split(sep) for a separator of several characters
RECURSIVE SplitSeq(_, _)
SplitSeq(s, sep) ==
    IF \A i \in 1..(Len(s) - Len(sep) + 1) : SubSeq(s, i, i + Len(sep) - 1) # sep
    THEN <<s>>
    ELSE LET i == CHOOSE k \in 1..(Len(s) - Len(sep) + 1) :
                      /\ SubSeq(s, k, k + Len(sep) - 1) = sep
                      /\ \A j \in 1..(k - 1) : SubSeq(s, j, j + Len(sep) - 1) # sep
         IN  <<SubSeq(s, 1, i - 1)>> \o SplitSeq(SubSeq(s, i + Len(sep), Len(s)), sep)

\* [x.strip() for x in str(value).split(sep) if x.strip()] if value else []
StrippedParts(value, sep) ==
    LET parts == SplitSeq(value, sep)
    IN  SelectMask([p \in 1..Len(parts) |-> Strip(parts[p])],
                   [p \in 1..Len(parts) |-> Strip(parts[p]) # <<>>])

competencies_list(col) == StrippedParts(safe_value(col["Kompetentsii"], EmptyText), <<",">>)

\* the indicators split at every semicolon
indicators_list_semicolon(col) ==
    StrippedParts(safe_value(col["Indikatory"], EmptyText), <<";">>)

indicators_list(col) == StrippedParts(safe_value(col["Indikatory"], EmptyText), <<";", "\n">>)

\* lines 167-186
process_statement_inputs(rows) ==
    [p \in 1..Len(rows) |->
        [question   |-> safe_value(rows[p]["Vopros"], EmptyText),
         eval_type  |-> safe_value(rows[p]["Tip_otsenki"], EmptyText),
         competency |-> safe_value(rows[p]["Kompetentsii"], EmptyText),
         answer     |-> safe_value(rows[p]["Otvet_uchastnika"], EmptyText)]]

\* lines 198-208
mini_case(col) ==
    [mini_case    |-> safe_value(col["Vopros"], EmptyText),
     competencies |-> competencies_list(col),
     indicators   |-> indicators_list(col),
     answer       |-> safe_value(col["Otvet_uchastnika"], EmptyText)]

\* lines 188-210
process_mini_case_inputs(rows) == [p \in 1..Len(rows) |-> mini_case(rows[p])]

\* lines 222-232
big_case(col) ==
    [big_case     |-> safe_value(col["Vopros"], EmptyText),
     competencies |-> competencies_list(col),
     indicators   |-> indicators_list(col),
     answer       |-> safe_value(col["Otvet_uchastnika"], EmptyText)]

\* lines 212-234
process_big_case_inputs(rows) == [p \in 1..Len(rows) |-> big_case(rows[p])]

\* lines 248-258
dilemma_request(col) ==
    [dilemma      |-> safe_value(col["Vopros"], EmptyText),
     competencies |-> competencies_list(col),
     indicators   |-> indicators_list(col),
     answer       |-> safe_value(col["Otvet_uchastnika"], EmptyText)]

\* lines 236-260
process_dilemma_inputs(rows) == [p \in 1..Len(rows) |-> dilemma_request(rows[p])]

\* lines 272-282
qa_entry(col) ==
    [question     |-> safe_value(col["Vopros"], EmptyText),
     answer       |-> safe_value(col["Otvet_uchastnika"], EmptyText),
     competencies |-> competencies_list(col),
     indicators   |-> indicators_list(col)]

\* lines 262-285
process_open_question_inputs(rows) == [p \in 1..Len(rows) |-> qa_entry(rows[p])]

\* the chapter labels of lines 324-328, a word of the label being one character
\* of the model: 'Быстрая самооценка', 'Открытые вопросы', 'Дилеммы',
\* 'Мини кейсы', 'Большие кейсы'
StatementsLabel == <<"Bystraya", " ", "samootsenka">>

OpenQuestionsLabel == <<"Otkrytye", " ", "voprosy">>

DilemmasLabel == <<"Dilemmy">>

MiniCasesLabel == <<"Mini", " ", "keisy">>

BigCasesLabel == <<"Bolshie", " ", "keisy">>

\* an address that differs from one run to the next
webhook_url_per_run ==
    IF pc = "process_all_inputs" THEN "https://ntfy.sh/assessment/2"
    ELSE "https://ntfy.sh/assessment"

\* line 336
webhook_url == "https://ntfy.sh/assessment"

\* line 314: df_merged[df_merged["Email"] == email]; a blank equals nothing
RowsOfEmail(t, email) ==
    SelectMask(t.rows,
               [p \in 1..Len(t.rows) |->
                   t.rows[p]["Email"] # NaN /\ email # NaN /\ t.rows[p]["Email"] = email])

\* lines 320-321: the chapter and the answer of every row normalised
NormalizedRows(rows) ==
    [p \in 1..Len(rows) |->
        [rows[p] EXCEPT
            !["Nazvanie_glavy"] = normalize_spaces(FillNa(@, EmptyText)),
            !["Otvet_uchastnika"] = clean_text(FillNa(@, EmptyText))]]

\* a bucket chosen by the last word of the label
Bucket_last_word(rows, label) ==
    SelectMask(rows,
               [p \in 1..Len(rows) |->
                   /\ rows[p]["Nazvanie_glavy"] # <<>>
                   /\ rows[p]["Nazvanie_glavy"][Len(rows[p]["Nazvanie_glavy"])]
                         = label[Len(label)]])

\* lines 324-328: df_one_email[df_one_email['Название главы'] == label]
Bucket(rows, label) ==
    SelectMask(rows, [p \in 1..Len(rows) |-> rows[p]["Nazvanie_glavy"] = label])

\* a collection set whatever its bucket holds
Collection_always_list(bucket, entries) == Some(entries)

\* lines 347-365: a collection is set only when its bucket has rows
Collection(bucket, entries) == IF bucket = <<>> THEN None ELSE Some(entries)

\* lines 312-365: the payload of one email whose rows are df_one_email
combined_request(email, df_one_email, matrix, info, type) ==
    LET first_row == df_one_email[1]
        rows      == NormalizedRows(df_one_email)
    IN  [user_email        |-> email,
         user_name         |-> safe_value(RowGet(first_row, "FIO", NaN), email),
         position_title    |-> safe_value(RowGet(first_row, "Pozitsiya", NaN), EmptyText),
         assessment_info   |-> info,
         webhook_url       |-> webhook_url,
         competency_matrix |-> matrix,
         assessment_type   |-> type,
         open_questions    |-> Collection(Bucket(rows, OpenQuestionsLabel),
                                 process_open_question_inputs(Bucket(rows, OpenQuestionsLabel))),
         statements        |-> Collection(Bucket(rows, StatementsLabel),
                                 process_statement_inputs(Bucket(rows, StatementsLabel))),
         dilemmas          |-> Collection(Bucket(rows, DilemmasLabel),
                                 process_dilemma_inputs(Bucket(rows, DilemmasLabel))),
         mini_cases        |-> Collection(Bucket(rows, MiniCasesLabel),
                                 process_mini_case_inputs(Bucket(rows, MiniCasesLabel))),
         big_cases         |-> Collection(Bucket(rows, BigCasesLabel),
                                 process_big_case_inputs(Bucket(rows, BigCasesLabel)))]

\* line 317: df_one_email.iloc[0] of a table without rows
IndexError ==
    [type |-> "IndexError", message |-> <<Msg("single positional indexer is out-of-bounds",
                                              <<>>, <<>>, FALSE)>>]

\* the call failed: nothing is returned
NoPayloads(error, joined_, warnings_) ==
    [raised |-> error, joined |-> joined_, warnings |-> warnings_,
     competency_matrix |-> None, returned |-> <<>>]

\* lines 287-370: all_payloads as the list of its (email, payload) items in
\* insertion order
process_all_inputs(answers, tasks, file, info, type) ==
    LET merged == df_from_files(answers, tasks)
        matrix == IF file = None
                  THEN [raised |-> NoError, warnings |-> <<>>, returned |-> <<>>]
                  ELSE process_competency_file(file.value)
        competency_matrix_ == IF file = None THEN None ELSE Some(matrix.returned)
        emails == Unique(Column(merged.returned, "Email"))
    IN  IF merged.raised # NoError
        THEN NoPayloads(merged.raised, merged.joined, <<>>)
        ELSE IF matrix.raised # NoError
        THEN NoPayloads(matrix.raised, TRUE, matrix.warnings)
        ELSE IF \E k \in 1..Len(emails) : RowsOfEmail(merged.returned, emails[k]) = <<>>
        THEN NoPayloads(IndexError, TRUE, matrix.warnings)
        ELSE [raised   |-> NoError,
              joined   |-> TRUE,
              warnings |-> matrix.warnings,
              competency_matrix |-> competency_matrix_,
              returned |->
                  [k \in 1..Len(emails) |->
                      [email   |-> emails[k],
                       payload |-> combined_request(emails[k],
                                       RowsOfEmail(merged.returned, emails[k]),
                                       competency_matrix_, info, type)]]]

-----------------------------------------------------------------------------
(* Input tables of the validator *)

MaxMatrixRows == 2

MaxQaRows == 2

LongRows == 7

Emails == {<<"u1">>, <<"u2">>}

\* 'competency' cells: plain names, padded, with a comma, with parentheses,
\* blank, missing
MatrixCells ==
    { <<"a">>, <<"b">>, <<" ", "a", " ">>, <<"a", ",", "b">>,
      <<"a", "(", "b", ")">>, <<" ">>, NaN }

\* 'Компетенции' cells: one name, two names, an unknown name, parentheses,
\* separators only, missing
QaCells ==
    { <<"a">>, <<"a", ",", " ", "b">>, <<"c">>, <<"a", "(", "b", ")">>,
      <<" ", ",">>, NaN }

QaRowValues ==
    { [Email |-> <<"u1">>, Kompetentsii |-> <<"a">>],
      [Email |-> <<"u2">>, Kompetentsii |-> <<"a", ",", " ", "b">>],
      [Email |-> <<"u2">>, Kompetentsii |-> <<"c">>],
      [Email |-> <<"u1">>, Kompetentsii |-> <<"a", "(", "b", ")">>],
      [Email |-> <<"u2">>, Kompetentsii |-> <<" ", ",">>],
      [Email |-> <<"u1">>, Kompetentsii |-> NaN] }

\* the p-th of a family of distinct names that carry a comma and a parenthesis
LongName(p) == <<"(", ",">> \o [k \in 1..p |-> "b"]

\* the p-th of a family of distinct references that carry a parenthesis
LongReference(p) == <<"(">> \o [k \in 1..p |-> "b"]

MatrixTables ==
    {Table({"competency"}, rows) :
        rows \in SeqsUpTo([{"competency"} -> MatrixCells], MaxMatrixRows)}
    \cup {Table({}, rows) : rows \in SeqsUpTo({<<>>}, MaxMatrixRows)}

LongMatrixTables ==
    UNION {{Table({"competency"},
                  [p \in 1..n |-> [competency |-> IF pick[p] THEN LongName(p) ELSE <<" ">>]]) :
               pick \in [1..n -> BOOLEAN]} : n \in 0..LongRows}

QaTables ==
    {Table({"Email", "Kompetentsii"}, rows) : rows \in SeqsUpTo(QaRowValues, MaxQaRows)}
    \cup {Table({"Email"}, rows) : rows \in SeqsUpTo([{"Email"} -> Emails], MaxQaRows)}

LongQaTables ==
    UNION {{Table({"Email", "Kompetentsii"},
                  [p \in 1..n |-> [Email |-> IF p % 2 = 1 THEN <<"u1">> ELSE <<"u2">>,
                                   Kompetentsii |-> IF pick[p] THEN LongReference(p)
                                                    ELSE <<"a">>]]) :
               pick \in [1..n -> BOOLEAN]} : n \in 0..LongRows}

\* answers tables that lack the 'Email' column
QaTablesNoEmail ==
    {Table({"Kompetentsii"}, rows) :
        rows \in SeqsUpTo([{"Kompetentsii"} -> QaCells], MaxQaRows)}

IdleSanitizer ==
    /\ df = NoTable /\ required_cols = <<>> /\ warnings = <<>>
    /\ scanned = 0 /\ cleaned_df = NoTable

IdleJoin == df1 = NoTable /\ df2 = NoTable /\ joined = FALSE /\ merged_df = NoTable

IdleValidate == df_competency = NoTable /\ df_qa = NoTable /\ errors = <<>>

IdlePage ==
    /\ answers_file = None /\ tasks_file = None /\ results = <<>> /\ idx = 0
    /\ api_calls = <<>> /\ st_calls = <<>>

IdleText == raw_text = None /\ cleaned_text = EmptyText

IdleTransforms == request = None /\ lists = <<>>

IdleLegacy == file1 = NoTable /\ file2 = NoTable

IdlePipeline ==
    /\ competency_file = None /\ assessment_info = EmptyText
    /\ assessment_type = "external" /\ competency_matrix = None /\ all_payloads = <<>>

InitValidate ==
    /\ pc = "start"
    /\ \/ df_competency \in MatrixTables /\ df_qa \in QaTables
       \/ df_competency \in LongMatrixTables
            /\ df_qa = Table({"Email", "Kompetentsii"}, <<[Email |-> <<"u1">>, Kompetentsii |-> <<"a">>]>>)
       \/ df_competency = Table({"competency"}, <<[competency |-> <<"a">>]>>)
            /\ df_qa \in LongQaTables
    /\ errors = <<>> /\ raised = NoError
    /\ IdleSanitizer /\ IdleJoin /\ IdlePipeline /\ IdlePage /\ IdleLegacy /\ IdleText /\ IdleTransforms

InitValidateAnyColumns ==
    \/ InitValidate
    \/ /\ pc = "start"
       /\ df_competency \in MatrixTables /\ df_qa \in QaTablesNoEmail
       /\ errors = <<>> /\ raised = NoError
       /\ IdleSanitizer /\ IdleJoin /\ IdlePipeline /\ IdlePage /\ IdleLegacy /\ IdleText /\ IdleTransforms

Validate ==
    /\ pc = "start"
    /\ pc' = "validate_competency_data"
    /\ errors' = validate_competency_data(df_competency, df_qa).errors
    /\ raised' = validate_competency_data(df_competency, df_qa).raised
    /\ UNCHANGED <<df_competency, df_qa, df, required_cols, warnings, scanned,
                   cleaned_df, df1, df2, joined, merged_df, pipelineVars, pageVars, legacyVars, textVars, transformVars>>

NextValidate == Validate

\* the validator on answers tables that carry the 'Email' column
SpecValidate == InitValidate /\ [][NextValidate]_vars

\* the validator on tables of any columns
SpecValidateAnyColumns == InitValidateAnyColumns /\ [][NextValidate]_vars

-----------------------------------------------------------------------------
(* What the claims about the validator speak of, stated on the input tables *)

ValidateDone == pc = "validate_competency_data"

\* the lines of the raised message (the line breaks left out)
RaisedLines == SelectMask(raised.message,
                          [k \in 1..Len(raised.message) |-> raised.message[k] # LineBreak])

LinesOfKind(kind) ==
    SelectMask(RaisedLines, [k \in 1..Len(RaisedLines) |-> RaisedLines[k].kind = kind])

NoDuplicates(s) == \A i, j \in 1..Len(s) : s[i] = s[j] => i = j

\* the normalized competency names of the matrix, row by row
NamesOfMatrix ==
    IF "competency" \in df_competency.columns
    THEN [p \in 1..Len(df_competency.rows) |->
             normalize_spaces(FillNa(df_competency.rows[p]["competency"], EmptyText))]
    ELSE <<>>

NonEmptyMatrixNames == {n \in Range(NamesOfMatrix) : n # EmptyText}

\* s[i..j] is one of the comma-delimited parts of s
IsCommaPart(s, i, j) ==
    /\ i = 1 \/ s[i - 1] = ","
    /\ j = Len(s) \/ s[j + 1] = ","
    /\ \A k \in i..j : s[k] # ","

\* the names the text refers to: its comma-delimited parts, trimmed, non-empty
NamesIn(s) ==
    {Strip(SubSeq(s, ij[1], ij[2])) :
        ij \in {x \in (1..(Len(s) + 1)) \X (0..Len(s)) : IsCommaPart(s, x[1], x[2])}}
    \ {EmptyText}

\* the competency names the answers table refers to
ReferencedNames ==
    IF "Kompetentsii" \in df_qa.columns
    THEN UNION {NamesIn(normalize_spaces(FillNa(df_qa.rows[p]["Kompetentsii"], EmptyText))) :
                   p \in 1..Len(df_qa.rows)}
    ELSE {}

UnknownReferences == ReferencedNames \ NonEmptyMatrixNames

\* positions of the answers rows whose reference cell carries a parenthesis
QaParenthesesRows ==
    IF "Kompetentsii" \in df_qa.columns
    THEN {p \in 1..Len(df_qa.rows) :
             /\ df_qa.rows[p]["Kompetentsii"] # NaN
             /\ ContainsAny(df_qa.rows[p]["Kompetentsii"], {"(", ")"})}
    ELSE {}

CommaNames == {n \in Range(NamesOfMatrix) : ContainsAny(n, {","})}

ParenthesesNames == {n \in Range(NamesOfMatrix) : ContainsAny(n, {"(", ")"})}

HasEmptyName == \E p \in 1..Len(NamesOfMatrix) : NamesOfMatrix[p] = EmptyText

\* s lists the first names of the set S in the order the matrix has them,
\* MaxShown at most
EchoesFirstOf(s, S) ==
    /\ NoDuplicates(s)
    /\ Range(s) \subseteq S
    /\ Len(s) = Min(MaxShown, Cardinality(S))
    /\ \A k \in 1..Len(s) :
          \E p \in 1..Len(NamesOfMatrix) :
              /\ NamesOfMatrix[p] = s[k]
              /\ \A q \in 1..(p - 1) :
                    NamesOfMatrix[q] \in S => NamesOfMatrix[q] \in Range(SubSeq(s, 1, k - 1))

-----------------------------------------------------------------------------
(* Claims about validate_competency_data *)

\* C1: when the answers refer to competency names that are not among the
\* non-empty normalized names of the matrix, validation fails and its
\* unknown-reference message lists exactly those names, each once; when
\* every referenced name is in the matrix there is no such message.
C1_UnknownReferencesListedExactly ==
    ValidateDone =>
        /\ UnknownReferences # {} =>
              /\ raised.type = "ValueError"
              /\ Len(LinesOfKind("missing_in_matrix")) = 1
              /\ Range(LinesOfKind("missing_in_matrix")[1].items) = UnknownReferences
              /\ NoDuplicates(LinesOfKind("missing_in_matrix")[1].items)
        /\ UnknownReferences = {} =>
              /\ LinesOfKind("missing_in_matrix") = <<>>
              /\ \A k \in 1..Len(errors) : errors[k].kind # "missing_in_matrix"

\* two unknown names are reported while another referenced name is known
C1_Witness ==
    /\ ValidateDone
    /\ Cardinality(UnknownReferences) >= 2
    /\ ReferencedNames \cap NonEmptyMatrixNames # {}
    /\ LinesOfKind("missing_in_matrix") # <<>>

\* C3 (as claimed): on tables of any columns the call either returns, exactly
\* when no check is violated, or raises one ValueError whose message is the
\* violation messages in check order, joined by line breaks; nothing else.
ViolatedChecks ==
    (IF "competency" \notin df_competency.columns THEN <<"no_competency_column">> ELSE <<>>)
    \o (IF CommaNames # {} THEN <<"matrix_comma">> ELSE <<>>)
    \o (IF ParenthesesNames # {} THEN <<"matrix_parentheses">> ELSE <<>>)
    \o (IF HasEmptyName THEN <<"matrix_empty">> ELSE <<>>)
    \o (IF "Kompetentsii" \notin df_qa.columns THEN <<"no_qa_column">> ELSE <<>>)
    \o (IF QaParenthesesRows # {} THEN <<"qa_parentheses">> ELSE <<>>)
    \o (IF UnknownReferences # {} THEN <<"missing_in_matrix">> ELSE <<>>)

C3_ReturnsOrRaisesOneAggregate ==
    ValidateDone =>
        /\ raised.type \in {"none", "ValueError"}
        /\ raised.type = "none" <=> ViolatedChecks = <<>>
        /\ raised.type = "ValueError" =>
              /\ [k \in 1..Len(RaisedLines) |-> RaisedLines[k].kind] = ViolatedChecks
              /\ Len(raised.message) = 2 * Len(ViolatedChecks) - 1
              /\ \A k \in 1..Len(raised.message) :
                    (raised.message[k] = LineBreak) <=> (k % 2 = 0)

\* C4: a matrix some of whose normalized names carries a comma, carries a
\* parenthesis or is empty is rejected; each of the three kinds of violation
\* has its own message, exactly when it occurs, and the comma and parenthesis
\* messages echo the offending names (the first five distinct ones, with
\* " ..." exactly when there are more).
C4_MatrixNameViolationsRejected ==
    ValidateDone =>
        /\ (CommaNames # {} \/ ParenthesesNames # {} \/ HasEmptyName) =>
              raised.type = "ValueError"
        /\ Len(LinesOfKind("matrix_comma")) = (IF CommaNames # {} THEN 1 ELSE 0)
        /\ Len(LinesOfKind("matrix_parentheses")) = (IF ParenthesesNames # {} THEN 1 ELSE 0)
        /\ Len(LinesOfKind("matrix_empty")) = (IF HasEmptyName THEN 1 ELSE 0)
        /\ CommaNames # {} =>
              /\ EchoesFirstOf(LinesOfKind("matrix_comma")[1].items, CommaNames)
              /\ LinesOfKind("matrix_comma")[1].more <=> Cardinality(CommaNames) > MaxShown
        /\ ParenthesesNames # {} =>
              /\ EchoesFirstOf(LinesOfKind("matrix_parentheses")[1].items, ParenthesesNames)
              /\ LinesOfKind("matrix_parentheses")[1].more
                    <=> Cardinality(ParenthesesNames) > MaxShown

\* all three kinds are reported at once, the comma message cut after five names
C4_Witness ==
    /\ ValidateDone
    /\ LinesOfKind("matrix_comma") # <<>>
    /\ LinesOfKind("matrix_parentheses") # <<>>
    /\ LinesOfKind("matrix_empty") # <<>>
    /\ Cardinality(CommaNames) > MaxShown
    /\ LinesOfKind("matrix_comma")[1].more

QaOffenders == SelectMask([p \in 1..Len(df_qa.rows) |-> p],
                          [p \in 1..Len(df_qa.rows) |-> p \in QaParenthesesRows])

C7_QaParenthesesExamplesCapped ==
    ValidateDone =>
        /\ Len(LinesOfKind("qa_parentheses")) = (IF QaParenthesesRows # {} THEN 1 ELSE 0)
        /\ QaParenthesesRows # {} =>
              /\ raised.type = "ValueError"
              /\ LET line == LinesOfKind("qa_parentheses")[1]
                 IN  /\ Len(line.items) = Min(MaxShown, Len(QaOffenders))
                     /\ \A k \in 1..Len(line.items) :
                           line.items[k] = <<df_qa.rows[QaOffenders[k]]["Email"],
                                             df_qa.rows[QaOffenders[k]]["Kompetentsii"]>>
                     /\ line.more <=> Len(QaOffenders) > MaxShown

\* six rows offend: five examples are shown, followed by " ..."
C7_Witness ==
    /\ ValidateDone
    /\ Len(QaOffenders) > MaxShown
    /\ LinesOfKind("qa_parentheses") # <<>>
    /\ Len(LinesOfKind("qa_parentheses")[1].items) = MaxShown
    /\ LinesOfKind("qa_parentheses")[1].more

-----------------------------------------------------------------------------
(* The two validators side by side, on a matrix that carries its names in   *)
(* both columns, 'competency' and 'name'                                    *)

BothColumnsMatrixTables ==
    {Table({"competency", "name"}, [p \in 1..Len(cells) |->
                                       [competency |-> cells[p], name |-> cells[p]]]) :
        cells \in SeqsUpTo(MatrixCells, MaxMatrixRows)}

InitBothValidators ==
    /\ pc = "start"
    /\ df_competency \in BothColumnsMatrixTables
    /\ df_qa \in QaTables
    /\ errors = <<>> /\ raised = NoError
    /\ IdleSanitizer /\ IdleJoin /\ IdlePipeline /\ IdlePage /\ IdleLegacy /\ IdleText /\ IdleTransforms

LegacyValidate ==
    /\ pc = "start"
    /\ pc' = "legacy_validate_competency_data"
    /\ errors' = legacy_validate_competency_data(df_competency, df_qa).errors
    /\ raised' = legacy_validate_competency_data(df_competency, df_qa).raised
    /\ UNCHANGED <<df_competency, df_qa, df, required_cols, warnings, scanned,
                   cleaned_df, df1, df2, joined, merged_df, pipelineVars, pageVars, legacyVars, textVars, transformVars>>

NextBothValidators == Validate \/ LegacyValidate

SpecBothValidators == InitBothValidators /\ [][NextBothValidators]_vars

LegacyValidateDone == pc = "legacy_validate_competency_data"

\* the non-empty matrix names that no answers row references
UnreferencedNames == NonEmptyMatrixNames \ ReferencedNames

-----------------------------------------------------------------------------
(* Input tables of the sanitizer and of the join *)

MaxDfRows == 2

MaxAnswerRows == 2

MaxTaskRows == 2

\* required-column lists handed to drop_rows_with_nan
RequiredLists == {<<"name", "description", "level_0">>, <<"level_0", "name">>}

SanitizerColumns == {"name", "description", "level_0", "weight"}

SanitizerTables ==
    UNION {{Table(cols, rows) : rows \in SeqsUpTo([cols -> {NaN, <<"a">>}], MaxDfRows)} :
              cols \in SUBSET SanitizerColumns}

\* a row of the sheet of participants' results
AnswerRow(task, email) ==
    [FIO |-> email, Email |-> email, Pozitsiya |-> <<"p">>,
     Nazvanie_glavy |-> <<"D">>, Nazvanie_zadaniya |-> task,
     Data_otpravki |-> <<"d">>, Otvet_uchastnika |-> <<"x">>]

\* a row of the tasks table
TaskRow(task, competencies) ==
    [Nazvanie_zadaniya |-> task, Vopros |-> <<"q">>, Tip_otsenki |-> <<"t">>,
     Kompetentsii |-> competencies, Indikatory |-> <<"i">>]

AnswerRowValues ==
    { AnswerRow(<<"A">>, <<"u1">>), AnswerRow(<<"a">>, <<"u1">>),
      AnswerRow(<<"a">>, <<"u2">>), AnswerRow(<<"a", " ">>, <<"u2">>),
      AnswerRow(NaN, <<"u1">>) }

\* one task name may fill several rows, one row per competency
TaskRowValues ==
    { TaskRow(<<"A">>, <<"a">>), TaskRow(<<"A">>, <<"b">>),
      TaskRow(<<"a">>, <<"a">>), TaskRow(NaN, <<"a">>) }

AnswerTables ==
    {Table(DOMAIN AnswerRow(NaN, NaN), rows) : rows \in SeqsUpTo(AnswerRowValues, MaxAnswerRows)}

TaskTables ==
    {Table(DOMAIN TaskRow(NaN, NaN), rows) : rows \in SeqsUpTo(TaskRowValues, MaxTaskRows)}

\* the table without the columns in gone
WithoutColumns(t, gone) ==
    Table(t.columns \ gone,
          [p \in 1..Len(t.rows) |-> [c \in t.columns \ gone |-> t.rows[p][c]]])

InitSanitize ==
    /\ pc = "call drop_rows_with_nan"
    /\ df \in SanitizerTables
    /\ required_cols \in RequiredLists
    /\ warnings = <<>> /\ scanned = 0 /\ cleaned_df = NoTable
    /\ raised = NoError
    /\ IdleValidate /\ IdleJoin /\ IdlePipeline /\ IdlePage /\ IdleLegacy /\ IdleText /\ IdleTransforms

\* both tables carry their columns
InitJoin ==
    /\ pc = "call df_from_files"
    /\ df1 \in AnswerTables
    /\ df2 \in TaskTables
    /\ joined = FALSE /\ merged_df = NoTable
    /\ raised = NoError
    /\ IdleValidate /\ IdleSanitizer /\ IdlePipeline /\ IdlePage /\ IdleLegacy /\ IdleText /\ IdleTransforms

\* the tasks table lacks any of its columns
InitJoinTaskColumns ==
    /\ pc = "call df_from_files"
    /\ df1 \in {Table(DOMAIN AnswerRow(NaN, NaN), rows) :
                   rows \in SeqsUpTo({AnswerRow(<<"A">>, <<"u1">>)}, 1)}
    /\ \E t \in TaskTables, gone \in SUBSET Range(cols_tasks) : df2 = WithoutColumns(t, gone)
    /\ joined = FALSE /\ merged_df = NoTable
    /\ raised = NoError
    /\ IdleValidate /\ IdleSanitizer /\ IdlePipeline /\ IdlePage /\ IdleLegacy /\ IdleText /\ IdleTransforms

DropRowsWithNan ==
    /\ pc = "call drop_rows_with_nan"
    /\ pc' = "drop_rows_with_nan"
    /\ raised' = drop_rows_with_nan(df, required_cols).raised
    /\ scanned' = drop_rows_with_nan(df, required_cols).scanned
    /\ warnings' = drop_rows_with_nan(df, required_cols).warnings
    /\ cleaned_df' = drop_rows_with_nan(df, required_cols).returned
    /\ UNCHANGED <<df_competency, df_qa, errors, df, required_cols, df1, df2,
                   joined, merged_df, pipelineVars, pageVars, legacyVars, textVars, transformVars>>

DfFromFiles ==
    /\ pc = "call df_from_files"
    /\ pc' = "df_from_files"
    /\ raised' = df_from_files(df1, df2).raised
    /\ joined' = df_from_files(df1, df2).joined
    /\ merged_df' = df_from_files(df1, df2).returned
    /\ UNCHANGED <<df_competency, df_qa, errors, df, required_cols, warnings,
                   scanned, cleaned_df, df1, df2, pipelineVars, pageVars, legacyVars, textVars, transformVars>>

NextJoin == DfFromFiles

\* the join on tables that carry their columns
SpecJoin == InitJoin /\ [][NextJoin]_vars

NextSchema == DropRowsWithNan \/ DfFromFiles

\* the two column checks
SpecSchema == (InitSanitize \/ InitJoinTaskColumns) /\ [][NextSchema]_vars

-----------------------------------------------------------------------------
(* Claims about df_from_files and the column checks *)

JoinDone == pc = "df_from_files"

SanitizeDone == pc = "drop_rows_with_nan"

\* positions of the answer rows whose task name is the name of a task row
MatchingAnswerRows ==
    {p \in 1..Len(df1.rows) :
        /\ df1.rows[p]["Nazvanie_zadaniya"] # NaN
        /\ \E q \in 1..Len(df2.rows) :
              df2.rows[q]["Nazvanie_zadaniya"] = df1.rows[p]["Nazvanie_zadaniya"]}

\* positions of the task rows whose task name is the name of an answer row
MatchingTaskRows ==
    {q \in 1..Len(df2.rows) :
        /\ df2.rows[q]["Nazvanie_zadaniya"] # NaN
        /\ \E p \in 1..Len(df1.rows) :
              df1.rows[p]["Nazvanie_zadaniya"] = df2.rows[q]["Nazvanie_zadaniya"]}

\* C8 (as claimed): df_from_files never returns an empty table: when no answer
\* row and task row carry the same task name, character for character, it
\* raises the join error with the whitespace/typo/case hint; when it returns,
\* the merged table has a row.
C8_NoMatchRaisesJoinError ==
    JoinDone =>
        /\ MatchingAnswerRows = {} => raised = JoinEmptyError
        /\ raised = NoError => Len(merged_df.rows) >= 1

\* C9 (as claimed): the merged table has at most as many rows as the smaller
\* of the two matching subsets.
C9_RowsAtMostMinOfMatching ==
    (JoinDone /\ raised = NoError) =>
        Len(merged_df.rows) <= Min(Cardinality(MatchingAnswerRows),
                                   Cardinality(MatchingTaskRows))

\* C9 (amended): the merged table has at most as many rows as the product of
\* the sizes of the two matching subsets, and at least as many as the larger.
C9_RowsAtMostProductOfMatching ==
    (JoinDone /\ raised = NoError) =>
        /\ Len(merged_df.rows) <= Cardinality(MatchingAnswerRows) * Cardinality(MatchingTaskRows)
        /\ Len(merged_df.rows) >= Cardinality(MatchingAnswerRows)
        /\ Len(merged_df.rows) >= Cardinality(MatchingTaskRows)

\* one answer joined with the two rows of its task: two merged rows
C9_Witness ==
    /\ JoinDone /\ raised = NoError
    /\ Cardinality(MatchingAnswerRows) = 1
    /\ Cardinality(MatchingTaskRows) = 2
    /\ Len(merged_df.rows) = 2

\* the members of s stand in s in the order they have in list
InOrderOf(s, list) ==
    \A i, j \in 1..Len(s) :
        i < j => \E k, l \in 1..Len(list) : k < l /\ list[k] = s[i] /\ list[l] = s[j]

\* C10: a required column that is missing is fatal and reported completely:
\* drop_rows_with_nan, and df_from_files for the tasks table, raise an error
\* that names exactly the missing required columns, each once, in the order
\* of the required list; no row is scanned, no diagnostic is emitted, no join
\* is made and no table is returned.
C10_MissingColumnsFatalAndNamed ==
    /\ (SanitizeDone /\ Range(required_cols) \ df.columns # {}) =>
          /\ raised.type = "ValueError"
          /\ Len(raised.message) = 1
          /\ raised.message[1].kind = "missing_required_columns"
          /\ Range(raised.message[1].items) = Range(required_cols) \ df.columns
          /\ NoDuplicates(raised.message[1].items)
          /\ InOrderOf(raised.message[1].items, required_cols)
          /\ scanned = 0 /\ warnings = <<>> /\ cleaned_df = NoTable
    /\ (JoinDone /\ Range(cols_tasks) \ df2.columns # {}) =>
          /\ raised.type = "ValueError"
          /\ Len(raised.message) = 1
          /\ raised.message[1].kind = "missing_task_columns"
          /\ Range(raised.message[1].items) = Range(cols_tasks) \ df2.columns
          /\ NoDuplicates(raised.message[1].items)
          /\ InOrderOf(raised.message[1].items, cols_tasks)
          /\ ~joined /\ merged_df = NoTable

\* two required columns are missing from a table one of whose rows has a blank
\* in the required column that is there
C10_Witness ==
    /\ SanitizeDone
    /\ Cardinality(Range(required_cols) \ df.columns) = 2
    /\ \E p \in 1..Len(df.rows), c \in Range(required_cols) \cap df.columns :
          df.rows[p][c] = NaN
    /\ raised.type = "ValueError"

\* the k-th smallest member of a set of positions
KthOf(S, k) == CHOOSE p \in S : Cardinality({q \in S : q < p}) = k - 1

\* positions of the rows of df with a blank in a required column
RowsWithBlank ==
    {p \in 1..Len(df.rows) : \E c \in Range(required_cols) : df.rows[p][c] = NaN}

-----------------------------------------------------------------------------
(* Inputs of process_all_inputs *)

MaxResultRows == 2

MaxLogicRows == 2

MaxFileRows == 2

\* a row of the sheet of participants' results
ResultRow(email, chapter, task, answer) ==
    [FIO |-> <<"n">>, Email |-> email, Pozitsiya |-> <<"p">>,
     Nazvanie_glavy |-> chapter, Nazvanie_zadaniya |-> task,
     Data_otpravki |-> <<"d">>, Otvet_uchastnika |-> answer]

\* a row of the tasks table
LogicRow(task, competencies, indicators) ==
    [Nazvanie_zadaniya |-> task, Vopros |-> <<"q">>, Tip_otsenki |-> <<"t">>,
     Kompetentsii |-> competencies, Indikatory |-> indicators]

\* a row of the matrix file: one indicator of a competency
MatrixRow(name, competency, weight) ==
    [name |-> name, description |-> <<"d">>,
     level_0 |-> <<"0">>, level_1 |-> <<"1">>, level_2 |-> <<"2">>, level_3 |-> <<"3">>,
     competency |-> competency, competency_description |-> <<"c", " ">>,
     weight |-> weight, indicator_name |-> <<"i">>, indicator_description |-> NaN]

ResultRowValues ==
    { ResultRow(<<"u1">>, DilemmasLabel, <<"A">>, <<"x">>),
      ResultRow(<<"u1">>, <<" ", "Mini", " ", " ", "keisy">>, <<"A">>, <<"x", " ">> \o Artifact),
      ResultRow(<<"u2">>, StatementsLabel, <<"a">>, NaN),
      ResultRow(<<"u2">>, <<"Drugoe">>, <<"A">>, <<"x">>),
      ResultRow(<<"u2">>, BigCasesLabel, <<"a">>, <<"y">>),
      ResultRow(NaN, OpenQuestionsLabel, <<"A">>, <<"x">>) }

LogicRowValues ==
    { LogicRow(<<"A">>, <<"a", ",", " ", "b">>, <<"i", ";", "\n", "j">>),
      LogicRow(<<"A">>, <<"b">>, NaN),
      LogicRow(<<"a">>, <<"c", "(", "d", ")">>, <<"i">>) }

MatrixRowValues ==
    { MatrixRow(<<"n">>, <<"a">>, <<"3", "0">>),
      MatrixRow(<<"n">>, <<" ", "a">>, <<"7", "0">>),
      MatrixRow(<<"n">>, <<"b", ",", "c">>, NaN),
      MatrixRow(<<"n">>, <<"a", "(", "b", ")">>, <<"x">>),
      MatrixRow(<<"n">>, NaN, <<"3", "0">>),
      MatrixRow(NaN, <<"a">>, <<"3", "0">>) }

ResultTables ==
    {Table(DOMAIN ResultRow(NaN, NaN, NaN, NaN), rows) :
        rows \in SeqsUpTo(ResultRowValues, MaxResultRows)}

LogicTables ==
    {Table(DOMAIN LogicRow(NaN, NaN, NaN), rows) : rows \in SeqsUpTo(LogicRowValues, MaxLogicRows)}

MatrixFiles ==
    {Table(DOMAIN MatrixRow(NaN, NaN, NaN), rows) : rows \in SeqsUpTo(MatrixRowValues, MaxFileRows)}

\* the columns a matrix file may come without
MatrixFileGaps ==
    { {}, {"weight", "indicator_name"}, {"name", "description"}, {"competency"},
      {"competency_description"} }

\* modules/config.py line 3
EVAL_TYPE_KEYS == <<"external", "internal", "development">>

\* the sheets vary and the matrix file is a plain one or none
InitPipelineSheets ==
    /\ df1 \in ResultTables
    /\ df2 \in LogicTables
    /\ competency_file \in
          {None, Some(Table(DOMAIN MatrixRow(NaN, NaN, NaN),
                            <<MatrixRow(<<"n">>, <<"a">>, <<"3", "0">>)>>))}
    /\ assessment_type = "external"

\* the matrix file varies under two answers of two participants
InitPipelineMatrix ==
    /\ df1 = Table(DOMAIN ResultRow(NaN, NaN, NaN, NaN),
                   <<ResultRow(<<"u1">>, DilemmasLabel, <<"A">>, <<"x">>),
                     ResultRow(<<"u2">>, StatementsLabel, <<"A">>, <<"y">>)>>)
    /\ df2 = Table(DOMAIN LogicRow(NaN, NaN, NaN),
                   <<LogicRow(<<"A">>, <<"a", ",", " ", "b">>, <<"i">>)>>)
    /\ \E t \in MatrixFiles, gone \in MatrixFileGaps :
          competency_file = Some(WithoutColumns(t, gone))
    /\ assessment_type \in Range(EVAL_TYPE_KEYS)

\* 'Компетенции' cells of the tasks table: names with blanks around them, empty
\* parts, no separator, white space only, missing
ReferenceCells ==
    { <<" ", "a", ",", ",", " ", "b", " ", "c", ",", " ">>, <<"a", ";", "b">>,
      <<" ">>, <<",">>, NaN }

\* 'Индикаторы' cells: the separator, a semicolon alone, a line break alone,
\* empty parts, missing
IndicatorCells ==
    { <<"i", ";", "\n", " ", "j", " ">>, <<"i", ";", " ", "j">>, <<"i", "\n", "j", ";">>,
      <<";", "\n", ";", "\n", "i", ",", "j">>, <<";", "\n">>, NaN }

\* one participant answers the task in each of the five chapters, and the
\* task's references vary
InitPipelineReferences ==
    /\ df1 = Table(DOMAIN ResultRow(NaN, NaN, NaN, NaN),
                   <<ResultRow(<<"u1">>, StatementsLabel, <<"A">>, <<"v">>),
                     ResultRow(<<"u1">>, OpenQuestionsLabel, <<"A">>, <<"w">>),
                     ResultRow(<<"u1">>, DilemmasLabel, <<"A">>, <<"x">>),
                     ResultRow(<<"u1">>, MiniCasesLabel, <<"A">>, <<"y">>),
                     ResultRow(<<"u1">>, BigCasesLabel, <<"A">>, <<"z">>)>>)
    /\ \E competencies \in ReferenceCells, indicators \in IndicatorCells :
          df2 = Table(DOMAIN LogicRow(NaN, NaN, NaN),
                      <<LogicRow(<<"A">>, competencies, indicators)>>)
    /\ competency_file = None
    /\ assessment_type = "external"

InitPipeline ==
    /\ pc = "call process_all_inputs"
    /\ InitPipelineSheets \/ InitPipelineMatrix \/ InitPipelineReferences
    /\ assessment_info = <<"i">>
    /\ competency_matrix = None /\ all_payloads = <<>>
    /\ joined = FALSE /\ merged_df = NoTable
    /\ raised = NoError
    /\ IdleValidate /\ IdleSanitizer /\ IdlePage /\ IdleLegacy /\ IdleText /\ IdleTransforms

ProcessAllInputs ==
    /\ pc = "call process_all_inputs"
    /\ pc' = "process_all_inputs"
    /\ LET result == process_all_inputs(df1, df2, competency_file,
                                        assessment_info, assessment_type)
       IN  /\ raised' = result.raised
           /\ joined' = result.joined
           /\ warnings' = result.warnings
           /\ competency_matrix' = result.competency_matrix
           /\ all_payloads' = result.returned
    /\ merged_df' = df_from_files(df1, df2).returned
    /\ UNCHANGED <<df_competency, df_qa, errors, df, required_cols, scanned,
                   cleaned_df, df1, df2, competency_file, assessment_info,
                   assessment_type, pageVars, legacyVars, textVars, transformVars>>

\* the matrix file alone
\* the columns of the function's docstring (lines 44-47) and of the spec's
\* CompetencyRow
DocumentedColumns ==
    {"competency", "competency_description", "weight", "indicator_name",
     "indicator_description", "level_0", "level_1", "level_2", "level_3"}

\* a row of the documented shape, every cell filled
DocumentedRow(competency) ==
    [competency |-> competency, competency_description |-> <<"c">>,
     weight |-> <<"3", "0">>, indicator_name |-> <<"i">>,
     indicator_description |-> <<"j">>,
     level_0 |-> <<"0">>, level_1 |-> <<"1">>, level_2 |-> <<"2">>, level_3 |-> <<"3">>]

DocumentedFiles ==
    {Table(DocumentedColumns, rows) :
        rows \in SeqsUpTo({DocumentedRow(<<"a">>), DocumentedRow(<<"b">>)}, MaxFileRows)}

\* rows that differ in their indicator: the names 'a' (also padded) and 'b',
\* a blank name, a weight that is a number, one that is none, and a blank one
IndicatorRowValues ==
    { [MatrixRow(<<"n">>, <<"a">>, <<"3", "0">>) EXCEPT !["indicator_name"] = <<"i">>],
      [MatrixRow(<<"n">>, <<"a", " ">>, <<"7", "0">>) EXCEPT !["indicator_name"] = <<"j">>],
      [MatrixRow(<<"n">>, <<"b">>, <<"x">>) EXCEPT !["indicator_name"] = <<"k">>],
      [MatrixRow(<<"n">>, <<"b">>, NaN) EXCEPT !["indicator_name"] = <<"l">>],
      [MatrixRow(<<"n">>, <<" ">>, <<"3", "0">>) EXCEPT !["indicator_name"] = <<"m">>] }

IndicatorFiles ==
    {Table(DOMAIN MatrixRow(NaN, NaN, NaN), rows) :
        rows \in SeqsUpTo(IndicatorRowValues, MaxFileRows)}

InitMatrix ==
    /\ pc = "call process_competency_file"
    /\ \/ \E t \in MatrixFiles, gone \in MatrixFileGaps :
             competency_file = Some(WithoutColumns(t, gone))
       \/ \E t \in DocumentedFiles : competency_file = Some(t)
       \/ \E t \in IndicatorFiles, gone \in {{}, {"weight"}} :
             competency_file = Some(WithoutColumns(t, gone))
    /\ assessment_info = EmptyText /\ assessment_type = "external"
    /\ competency_matrix = None /\ all_payloads = <<>>
    /\ raised = NoError
    /\ IdleValidate /\ IdleSanitizer /\ IdleJoin /\ IdlePage /\ IdleLegacy /\ IdleText /\ IdleTransforms

ProcessCompetencyFile ==
    /\ pc = "call process_competency_file"
    /\ pc' = "process_competency_file"
    /\ LET result == process_competency_file(competency_file.value)
       IN  /\ raised' = result.raised
           /\ warnings' = result.warnings
           /\ competency_matrix' =
                 IF result.raised = NoError THEN Some(result.returned) ELSE None
    /\ UNCHANGED <<df_competency, df_qa, errors, df, required_cols, scanned,
                   cleaned_df, df1, df2, joined, merged_df, competency_file,
                   assessment_info, assessment_type, all_payloads, pageVars, legacyVars, textVars, transformVars>>

NextMatrix == ProcessCompetencyFile

\* the matrix builder on the matrix file
SpecMatrix == InitMatrix /\ [][NextMatrix]_vars

NextPipeline == ProcessAllInputs

\* the payload builder on the three uploaded files
SpecPipeline == InitPipeline /\ [][NextPipeline]_vars

\* process_all_inputs called once more with the same files, text and type
ProcessAllInputsAgain ==
    /\ pc = "process_all_inputs"
    /\ pc' = "process_all_inputs again"
    /\ LET result == process_all_inputs(df1, df2, competency_file,
                                        assessment_info, assessment_type)
       IN  /\ raised' = result.raised
           /\ joined' = result.joined
           /\ warnings' = result.warnings
           /\ competency_matrix' = result.competency_matrix
           /\ all_payloads' = result.returned
    /\ merged_df' = df_from_files(df1, df2).returned
    /\ UNCHANGED <<df_competency, df_qa, errors, df, required_cols, scanned,
                   cleaned_df, df1, df2, competency_file, assessment_info,
                   assessment_type, pageVars, legacyVars, textVars, transformVars>>

NextTwoRuns == ProcessAllInputs \/ ProcessAllInputsAgain

\* two runs of process_all_inputs on the same inputs
SpecTwoRuns == InitPipeline /\ [][NextTwoRuns]_vars

\* df_one_email as a view of df_merged: the assignments of lines 320-321 reach
\* the rows of the email in df_merged
MergedAfterFilter_view(merged, email) ==
    Table(merged.columns,
          [p \in 1..Len(merged.rows) |->
              IF merged.rows[p]["Email"] = email
              THEN NormalizedRows(<<merged.rows[p]>>)[1]
              ELSE merged.rows[p]])

\* line 314: a boolean filter gives df_one_email as a copy, so the
\* assignments of lines 320-321 write to the copy: df_merged after them
MergedAfterFilter(merged, email) == merged

\* lines 301-310: the join, the matrix and the list of emails; an exception of
\* either call ends process_all_inputs
StartAssembly ==
    /\ pc = "call process_all_inputs"
    /\ LET merged == df_from_files(df1, df2)
           matrix == IF competency_file = None
                     THEN [raised |-> NoError, warnings |-> <<>>, returned |-> <<>>]
                     ELSE process_competency_file(competency_file.value)
       IN  /\ joined' = merged.joined
           /\ merged_df' = merged.returned
           /\ raised' = IF merged.raised # NoError THEN merged.raised ELSE matrix.raised
           /\ warnings' = IF merged.raised # NoError THEN <<>> ELSE matrix.warnings
           /\ competency_matrix' =
                 IF merged.raised = NoError /\ matrix.raised = NoError
                       /\ competency_file # None
                 THEN Some(matrix.returned) ELSE None
           /\ pc' = IF merged.raised = NoError /\ matrix.raised = NoError
                    THEN "for email in emails" ELSE "process_all_inputs"
    /\ all_payloads' = <<>>
    /\ UNCHANGED <<df_competency, df_qa, errors, df, required_cols, scanned,
                   cleaned_df, df1, df2, competency_file, assessment_info,
                   assessment_type, pageVars, legacyVars, textVars, transformVars>>

\* lines 312-367: one turn of the loop, for the email after those that have
\* their request; line 317 raises when the email has no row
AssembleOne ==
    /\ pc = "for email in emails"
    /\ LET emails == Unique(Column(merged_df, "Email"))
       IN  /\ Len(all_payloads) < Len(emails)
           /\ LET email        == emails[Len(all_payloads) + 1]
                  df_one_email == RowsOfEmail(merged_df, email)
              IN  IF df_one_email = <<>>
                  THEN /\ raised' = IndexError
                       /\ all_payloads' = <<>>
                       /\ merged_df' = merged_df
                       /\ pc' = "process_all_inputs"
                  ELSE /\ raised' = raised
                       /\ all_payloads' =
                             Append(all_payloads,
                                    [email   |-> email,
                                     payload |-> combined_request(email, df_one_email,
                                                     competency_matrix, assessment_info,
                                                     assessment_type)])
                       /\ merged_df' = MergedAfterFilter(merged_df, email)
                       /\ pc' = pc
    /\ UNCHANGED <<df_competency, df_qa, errors, df, required_cols, warnings, scanned,
                   cleaned_df, df1, df2, joined, competency_file, assessment_info,
                   assessment_type, competency_matrix, pageVars, legacyVars, textVars, transformVars>>

\* line 370: every email has its request and all_payloads is returned
ReturnPayloads ==
    /\ pc = "for email in emails"
    /\ Len(all_payloads) = Len(Unique(Column(merged_df, "Email")))
    /\ pc' = "process_all_inputs"
    /\ UNCHANGED <<df_competency, df_qa, errors, raised, df, required_cols, warnings,
                   scanned, cleaned_df, df1, df2, joined, merged_df, pipelineVars,
                   pageVars, legacyVars, textVars, transformVars>>

NextAssembly == StartAssembly \/ AssembleOne \/ ReturnPayloads

\* process_all_inputs, one participant at a time
SpecAssembly == InitPipeline /\ [][NextAssembly]_vars

-----------------------------------------------------------------------------
(* One turn of the loop of process_all_inputs, one row of one per-category
   processor at a time, the five processors in any order *)

MaxTurnRows == 3

\* the answers of one participant: a task under every label and under a label
\* outside the vocabulary, and a second task under one label
TurnRowValues ==
    { ResultRow(<<"u1">>, label, <<"A">>, <<"x">>) :
        label \in {StatementsLabel, DilemmasLabel, OpenQuestionsLabel,
                   <<" ", "Mini", " ", " ", "keisy">>, BigCasesLabel, <<"Drugoe">>} }
      \cup { ResultRow(<<"u1">>, DilemmasLabel, <<"a">>, <<"y">>) }

\* the email of the loop turn
TurnEmail == <<"u1">>

\* lines 314-328: the rows of the turn, chapter and answer normalised
TurnRows == NormalizedRows(RowsOfEmail(merged_df, TurnEmail))

\* lines 330-344: combined_request as the dict literal leaves it
NewRequest(email, df_one_email, matrix, info, type) ==
    [combined_request(email, df_one_email, matrix, info, type) EXCEPT
        !.open_questions = None, !.statements = None, !.dilemmas = None,
        !.mini_cases = None, !.big_cases = None]

\* the fields of the five collections
CollectionFields == {"statements", "dilemmas", "open_questions", "mini_cases", "big_cases"}

InitTurn ==
    /\ pc = "process each task type"
    /\ \E rows \in SeqsUpTo(TurnRowValues, MaxTurnRows) :
          /\ rows # <<>>
          /\ df1 = Table(DOMAIN ResultRow(NaN, NaN, NaN, NaN), rows)
    /\ df2 = Table(DOMAIN LogicRow(NaN, NaN, NaN),
                   <<LogicRow(<<"A">>, <<"a", ",", " ", "b">>, <<"i", ";", "\n", "j">>),
                     LogicRow(<<"a">>, <<"b">>, NaN)>>)
    /\ joined = TRUE
    /\ merged_df = df_from_files(df1, df2).returned
    /\ competency_file = None /\ competency_matrix = None
    /\ assessment_info = <<"i">> /\ assessment_type = "external"
    /\ all_payloads = <<>>
    /\ raised = NoError
    /\ request = NewRequest(TurnEmail, RowsOfEmail(merged_df, TurnEmail),
                            competency_matrix, assessment_info, assessment_type)
    /\ lists = [field \in CollectionFields |-> <<>>]
    /\ IdleValidate /\ IdleSanitizer /\ IdlePage /\ IdleLegacy /\ IdleText

\* one list shared by the five processors
OwnList_shared(lists_, field) ==
    lists_.statements \o lists_.dilemmas \o lists_.open_questions
        \o lists_.mini_cases \o lists_.big_cases

\* the list a processor appends to is its own (lines 177, 197, 221, 245, 270)
OwnList(lists_, field) == lists_[field]

\* one row of a processor: the entry of the next row of its bucket goes to its
\* list; after the last row the list is returned and assigned to the field of
\* the processor (lines 347-365)
ProcessRow(field, bucket, entry(_)) ==
    /\ pc = "process each task type"
    /\ request[field] = None
    /\ Len(lists[field]) < Len(bucket)
    /\ LET list == Append(OwnList(lists, field), entry(bucket[Len(lists[field]) + 1]))
       IN  /\ lists' = [lists EXCEPT ![field] = list]
           /\ request' = IF Len(lists[field]) + 1 = Len(bucket)
                         THEN [request EXCEPT ![field] = Some(list)]
                         ELSE request
    /\ UNCHANGED <<pc, df_competency, df_qa, errors, raised, df, required_cols, warnings,
                   scanned, cleaned_df, df1, df2, joined, merged_df, pipelineVars,
                   pageVars, legacyVars, textVars>>

statement_request(col) == process_statement_inputs(<<col>>)[1]

\* lines 347-349 with 167-186
ProcessStatementInputs ==
    ProcessRow("statements", Bucket(TurnRows, StatementsLabel), statement_request)

\* lines 351-353 with 236-260
ProcessDilemmaInputs ==
    ProcessRow("dilemmas", Bucket(TurnRows, DilemmasLabel), dilemma_request)

\* lines 355-357 with 262-285
ProcessOpenQuestionInputs ==
    ProcessRow("open_questions", Bucket(TurnRows, OpenQuestionsLabel), qa_entry)

\* lines 359-361 with 188-210
ProcessMiniCaseInputs ==
    ProcessRow("mini_cases", Bucket(TurnRows, MiniCasesLabel), mini_case)

\* lines 363-365 with 212-234
ProcessBigCaseInputs ==
    ProcessRow("big_cases", Bucket(TurnRows, BigCasesLabel), big_case)

\* the bucket of a field
BucketOf(field) ==
    Bucket(TurnRows,
           CASE field = "statements"     -> StatementsLabel
             [] field = "dilemmas"       -> DilemmasLabel
             [] field = "open_questions" -> OpenQuestionsLabel
             [] field = "mini_cases"     -> MiniCasesLabel
             [] field = "big_cases"      -> BigCasesLabel)

\* line 367: every processor whose bucket has rows has returned, and the
\* request is stored under the email
StoreRequest ==
    /\ pc = "process each task type"
    /\ \A field \in CollectionFields : BucketOf(field) # <<>> => request[field] # None
    /\ pc' = "all_payloads[email] = combined_request"
    /\ all_payloads' = Append(all_payloads, [email |-> TurnEmail, payload |-> request])
    /\ UNCHANGED <<df_competency, df_qa, errors, raised, df, required_cols, warnings,
                   scanned, cleaned_df, df1, df2, joined, merged_df, competency_file,
                   assessment_info, assessment_type, competency_matrix,
                   pageVars, legacyVars, textVars, transformVars>>

NextTurn ==
    \/ ProcessStatementInputs
    \/ ProcessDilemmaInputs
    \/ ProcessOpenQuestionInputs
    \/ ProcessMiniCaseInputs
    \/ ProcessBigCaseInputs
    \/ StoreRequest

\* one loop turn, its processors interleaved
SpecTurn == InitTurn /\ [][NextTurn]_vars

-----------------------------------------------------------------------------
(* The report page: pages/assessment_report.py and modules/api_client.py *)

\* what requests.post does: it raises, or it returns a response with a status
PostOutcomes ==
    { [exception |-> "ConnectionError", status_code |-> 0],
      [exception |-> "", status_code |-> 200],
      [exception |-> "", status_code |-> 500] }

\* str(e), the text of the exception
ErrorString(e) == [is_str |-> TRUE, str |-> e, status_code |-> 0]

\* the response object
Response(status_code) == [is_str |-> FALSE, str |-> "", status_code |-> status_code]

\* requests.post called outside the try block
send_to_assessment_api_no_try(payload, api_url, post) ==
    IF post.exception # ""
    THEN [raised |-> [type |-> post.exception, message |-> <<>>], returned |-> Response(0)]
    ELSE [raised |-> NoError, returned |-> Response(post.status_code)]

\* modules/api_client.py lines 4-21; post is what requests.post does this time
send_to_assessment_api(payload, api_url, post) ==
    IF post.exception # ""
    THEN [raised |-> NoError, returned |-> ErrorString(post.exception)]
    ELSE [raised |-> NoError, returned |-> Response(post.status_code)]

\* lines 17-24: the first option of the selectbox
api_url == "https://evolveaiserver-production.up.railway.app/evaluate_assessment"

\* the tasks files of the page: a task the answers name, a file without the
\* column 'Вопрос', a file without rows
PageTaskFiles ==
    { Table(DOMAIN LogicRow(NaN, NaN, NaN), <<LogicRow(<<"A">>, <<"b">>, <<"i">>)>>),
      WithoutColumns(Table(DOMAIN LogicRow(NaN, NaN, NaN),
                           <<LogicRow(<<"A">>, <<"b">>, <<"i">>)>>), {"Vopros"}),
      Table(DOMAIN LogicRow(NaN, NaN, NaN), <<>>) }

\* the matrix files of the page: a plain one, one without 'name' and
\* 'description'
PageMatrixFiles ==
    { Table(DOMAIN MatrixRow(NaN, NaN, NaN), <<MatrixRow(<<"n">>, <<"a">>, <<"3", "0">>)>>),
      WithoutColumns(Table(DOMAIN MatrixRow(NaN, NaN, NaN),
                           <<MatrixRow(<<"n">>, <<"a">>, <<"3", "0">>)>>),
                     {"name", "description"}) }

\* lines 34-86: the widgets hold the type, the context and the uploaded files
InitPage ==
    /\ pc = "render"
    /\ answers_file \in {None} \cup {Some(t) : t \in ResultTables}
    /\ tasks_file \in {None} \cup {Some(t) : t \in PageTaskFiles}
    /\ competency_file \in {None} \cup {Some(t) : t \in PageMatrixFiles}
    /\ assessment_type = EVAL_TYPE_KEYS[1]
    /\ assessment_info = <<"i">>
    /\ results = <<>> /\ idx = 0 /\ api_calls = <<>> /\ st_calls = <<>>
    /\ competency_matrix = None /\ all_payloads = <<>>
    /\ raised = NoError
    /\ IdleValidate /\ IdleSanitizer /\ IdleJoin /\ IdleLegacy /\ IdleText /\ IdleTransforms

\* lines 88-90: the button is pressed; without the three files the page shows
\* an error and does nothing more
Submit ==
    /\ pc = "render"
    /\ IF answers_file = None \/ tasks_file = None \/ competency_file = None
       THEN /\ st_calls' = Append(st_calls, "error")
            /\ pc' = "rendered"
       ELSE /\ st_calls' = st_calls
            /\ pc' = "submitted"
    /\ UNCHANGED <<df_competency, df_qa, errors, raised, df, required_cols, warnings,
                   scanned, cleaned_df, df1, df2, joined, merged_df, pipelineVars,
                   answers_file, tasks_file, results, idx, api_calls, legacyVars, textVars, transformVars>>

\* lines 93-110 and 139-141: process_all_inputs is awaited; an exception goes
\* to the handler, an empty result to a warning, and otherwise the loop starts
Process ==
    /\ pc = "submitted"
    /\ LET result == process_all_inputs(answers_file.value, tasks_file.value,
                                        competency_file, assessment_info, assessment_type)
       IN  /\ raised' = result.raised
           /\ joined' = result.joined
           /\ warnings' = result.warnings
           /\ competency_matrix' = result.competency_matrix
           /\ all_payloads' = result.returned
           /\ results' = IF result.raised = NoError THEN result.returned ELSE <<>>
           /\ st_calls' = Append(st_calls,
                              IF result.raised # NoError THEN "error"
                              ELSE IF result.returned = <<>> THEN "warning"
                              ELSE "success")
           /\ pc' = IF result.raised = NoError /\ result.returned # <<>>
                    THEN "loop" ELSE "rendered"
    /\ df1' = answers_file.value
    /\ df2' = tasks_file.value
    /\ merged_df' = df_from_files(answers_file.value, tasks_file.value).returned
    /\ UNCHANGED <<df_competency, df_qa, errors, df, required_cols, scanned,
                   cleaned_df, competency_file, assessment_info, assessment_type,
                   answers_file, tasks_file, idx, api_calls, legacyVars, textVars, transformVars>>

\* lines 112-134: one turn of the loop, on the payload after the idx handled
\* ones; an exception out of the call would go to the handler of lines 139-141
SendToApi ==
    /\ pc = "loop"
    /\ idx < Len(results)
    /\ \E post \in PostOutcomes :
          LET email    == results[idx + 1].email
              payload  == results[idx + 1].payload
              call     == send_to_assessment_api(payload, api_url, post)
              response == call.returned
          IN  IF call.raised # NoError
              THEN /\ raised' = call.raised
                   /\ api_calls' = Append(api_calls,
                          [email |-> email, payload |-> payload, api_url |-> api_url,
                           raised |-> TRUE, response |-> response])
                   /\ st_calls' = Append(st_calls, "error")
                   /\ idx' = idx
                   /\ pc' = "rendered"
              ELSE /\ raised' = raised
                   /\ api_calls' = Append(api_calls,
                          [email |-> email, payload |-> payload, api_url |-> api_url,
                           raised |-> FALSE, response |-> response])
                   /\ st_calls' = Append(st_calls,
                          IF response.is_str THEN "error"
                          ELSE IF response.status_code = 200 THEN "success"
                          ELSE "warning")
                   /\ idx' = idx + 1
                   /\ pc' = pc
    /\ UNCHANGED <<df_competency, df_qa, errors, df, required_cols, warnings, scanned,
                   cleaned_df, df1, df2, joined, merged_df, pipelineVars,
                   answers_file, tasks_file, results, legacyVars, textVars, transformVars>>

\* lines 136-137: the loop is over
Finish ==
    /\ pc = "loop"
    /\ idx = Len(results)
    /\ pc' = "rendered"
    /\ st_calls' = Append(st_calls, "success")
    /\ UNCHANGED <<df_competency, df_qa, errors, raised, df, required_cols, warnings,
                   scanned, cleaned_df, df1, df2, joined, merged_df, pipelineVars,
                   answers_file, tasks_file, results, idx, api_calls, legacyVars, textVars, transformVars>>

NextPage == Submit \/ Process \/ SendToApi \/ Finish

\* one press of the button on the report page
SpecPage == InitPage /\ [][NextPage]_vars

-----------------------------------------------------------------------------
(* The legacy single-page pipeline: process_excel_files, src/app.py *)

\* app.py line 14
REQUIRED_QA_COLUMNS == <<"Email", "Vopros", "Otvet_uchastnika", "Kompetentsii">>

\* app.py lines 23-45: the same sanitizer as modules/validation.py
legacy_drop_rows_with_nan(t, cols) == drop_rows_with_nan(t, cols)

\* app.py lines 165-181: the competency of one matrix row
legacy_competency(row, levels) ==
    [name        |-> normalize_spaces(row["name"]),
     description |-> IF row["description"] # NaN THEN Some(Strip(Str(row["description"])))
                     ELSE None,
     levels      |-> LET kept == SelectMask(levels,
                                    [k \in 1..Len(levels) |->
                                        /\ row[levels[k]] # NaN
                                        /\ Strip(Str(row[levels[k]])) # <<>>])
                     IN  [k \in 1..Len(kept) |->
                             [name |-> kept[k], description |-> Strip(Str(row[kept[k]]))]]]

\* app.py lines 161-181
legacy_competency_matrix(dfc) ==
    LET levels == SelectMask(level_columns,
                             [k \in 1..Len(level_columns) |-> level_columns[k] \in dfc.columns])
    IN  [p \in 1..Len(dfc.rows) |-> legacy_competency(dfc.rows[p], levels)]

\* app.py lines 198-209: the entry of one answers row
legacy_qa_entry(row) ==
    [question     |-> Str(row["Vopros"]),
     answer       |-> Str(row["Otvet_uchastnika"]),
     competencies |-> SplitParts(normalize_spaces(row["Kompetentsii"]))]

\* app.py lines 187-209: the payload of one email
legacy_json_payload(email, dfq, matrix) ==
    LET one_student == SelectMask(dfq.rows,
                                  [p \in 1..Len(dfq.rows) |-> dfq.rows[p]["Email"] = email])
    IN  [competency_matrix     |-> matrix,
         questions_and_answers |-> [p \in 1..Len(one_student) |-> legacy_qa_entry(one_student[p])],
         webhook_url           |-> webhook_url,
         user_email            |-> email,
         user_name             |-> email]

\* an append inside the loop over the emails: one tuple per email
LegacyResults_per_email(emails, dfq, matrix) ==
    [k \in 1..Len(emails) |->
        [email |-> emails[k], payload |-> legacy_json_payload(emails[k], dfq, matrix)]]

\* app.py lines 160, 186 and 212: results.append((email, json_payload)) stands
\* after the loop, so it appends the tuple of the last email, once
LegacyResults(emails, dfq, matrix) ==
    <<[email   |-> emails[Len(emails)],
       payload |-> legacy_json_payload(emails[Len(emails)], dfq, matrix)]>>

\* app.py line 212 when the loop over the emails had no turn
UnboundLocalError ==
    [type |-> "UnboundLocalError",
     message |-> <<Msg("cannot access local variable 'email'", <<>>, <<>>, FALSE)>>]

\* the call ended in an exception
LegacyRaised(e, warned, dfc, dfq, found) ==
    [raised |-> e, warnings |-> warned, df_competency |-> dfc, df_qa |-> dfq,
     errors |-> found, returned |-> <<>>]

\* app.py lines 126-214, from the two tables read
process_excel_files(matrix_file, answers_file_) ==
    LET clean_matrix == legacy_drop_rows_with_nan(matrix_file, REQUIRED_COMPETENCY_COLUMNS)
        clean_qa     == legacy_drop_rows_with_nan(answers_file_, REQUIRED_QA_COLUMNS)
        checked      == legacy_validate_competency_data(clean_matrix.returned, clean_qa.returned)
        warned       == clean_matrix.warnings \o clean_qa.warnings
        emails       == Unique(Column(clean_qa.returned, "Email"))
    IN  IF clean_matrix.raised # NoError
        THEN LegacyRaised(clean_matrix.raised, <<>>, NoTable, NoTable, <<>>)
        ELSE IF clean_qa.raised # NoError
        THEN LegacyRaised(clean_qa.raised, clean_matrix.warnings, clean_matrix.returned,
                          NoTable, <<>>)
        ELSE IF checked.raised # NoError
        THEN LegacyRaised(checked.raised, warned, clean_matrix.returned, clean_qa.returned,
                          checked.errors)
        ELSE IF emails = <<>>
        THEN LegacyRaised(UnboundLocalError, warned, clean_matrix.returned,
                          clean_qa.returned, <<>>)
        ELSE [raised        |-> NoError,
              warnings      |-> warned,
              df_competency |-> clean_matrix.returned,
              df_qa         |-> clean_qa.returned,
              errors        |-> <<>>,
              returned      |-> LegacyResults(emails, clean_qa.returned,
                                    legacy_competency_matrix(clean_matrix.returned))]

MaxLegacyRows == 2

\* a row of the legacy matrix file
LegacyMatrixRow(name, level_3) ==
    [name |-> name, description |-> <<"d", " ">>,
     level_0 |-> <<"0">>, level_1 |-> <<" ">>, level_2 |-> <<"2">>, level_3 |-> level_3]

\* a row of the legacy answers file
LegacyQaRow(email, question, competencies) ==
    [Email |-> email, Vopros |-> question, Otvet_uchastnika |-> <<"x">>,
     Kompetentsii |-> competencies]

LegacyMatrixRowValues ==
    { LegacyMatrixRow(<<"a">>, <<"3">>), LegacyMatrixRow(<<" ", "b">>, <<"3">>),
      LegacyMatrixRow(<<"a">>, NaN) }

LegacyQaRowValues ==
    { LegacyQaRow(<<"u1">>, <<"q">>, <<"a">>),
      LegacyQaRow(<<"u2">>, <<"r">>, <<"a", ",", " ", "b">>),
      LegacyQaRow(<<"u1">>, <<"s">>, <<"b">>),
      LegacyQaRow(NaN, <<"q">>, <<"a">>),
      LegacyQaRow(<<"u2">>, <<"q">>, <<"c">>) }

\* the two uploaded files, the answers file also without its 'Вопрос' column
InitLegacy ==
    /\ pc = "call process_excel_files"
    /\ file1 \in {Table(DOMAIN LegacyMatrixRow(NaN, NaN), rows) :
                     rows \in SeqsUpTo(LegacyMatrixRowValues, MaxLegacyRows)}
    /\ \E rows \in SeqsUpTo(LegacyQaRowValues, MaxLegacyRows), gone \in {{}, {"Vopros"}} :
          file2 = WithoutColumns(Table(DOMAIN LegacyQaRow(NaN, NaN, NaN), rows), gone)
    /\ raised = NoError
    /\ IdleValidate /\ IdleSanitizer /\ IdleJoin /\ IdlePipeline /\ IdlePage /\ IdleText /\ IdleTransforms

ProcessExcelFiles ==
    /\ pc = "call process_excel_files"
    /\ pc' = "process_excel_files"
    /\ LET result == process_excel_files(file1, file2)
       IN  /\ raised' = result.raised
           /\ warnings' = result.warnings
           /\ df_competency' = result.df_competency
           /\ df_qa' = result.df_qa
           /\ errors' = result.errors
           /\ all_payloads' = result.returned
    /\ UNCHANGED <<df, required_cols, scanned, cleaned_df, df1, df2, joined, merged_df,
                   competency_file, assessment_info, assessment_type, competency_matrix,
                   pageVars, legacyVars, textVars, transformVars>>

NextLegacy == ProcessExcelFiles

\* one call of process_excel_files
SpecLegacy == InitLegacy /\ [][NextLegacy]_vars

-----------------------------------------------------------------------------
(* clean_text on free text, modules/validation.py *)

MaxPieces == 3

\* what the texts are made of: a blank, a line break, a letter, the artifact
\* and its two ends
TextPieces ==
    { <<" ">>, <<"\n">>, <<"a">>, Artifact, <<"_", "x", "0">>, <<"0", "0", "D", "_">> }

\* the pieces of a list written one after the other
RECURSIVE Concat(_)
Concat(pieces) == IF pieces = <<>> THEN <<>> ELSE Head(pieces) \o Concat(Tail(pieces))

InitText ==
    /\ pc = "call clean_text"
    /\ raw_text \in {None} \cup {Some(Concat(pieces)) : pieces \in SeqsUpTo(TextPieces, MaxPieces)}
    /\ cleaned_text = EmptyText
    /\ raised = NoError
    /\ IdleValidate /\ IdleSanitizer /\ IdleJoin /\ IdlePipeline /\ IdlePage /\ IdleLegacy /\ IdleTransforms

\* lines 6-12: None gives '', a text goes through the two substitutions
CleanText ==
    /\ pc = "call clean_text"
    /\ pc' = "clean_text"
    /\ cleaned_text' = IF raw_text = None THEN EmptyText ELSE clean_text(raw_text.value)
    /\ UNCHANGED <<df_competency, df_qa, errors, raised, df, required_cols, warnings,
                   scanned, cleaned_df, df1, df2, joined, merged_df, pipelineVars,
                   pageVars, legacyVars, raw_text, transformVars>>

NextText == CleanText

\* one call of clean_text
SpecText == InitText /\ [][NextText]_vars

-----------------------------------------------------------------------------
(* Claims about process_all_inputs *)

MatrixDone == pc = "process_competency_file"

\* positions of the rows of the matrix file that sanitation keeps
SanitizedRows ==
    {p \in 1..Len(competency_file.value.rows) :
        \A c \in Range(REQUIRED_COMPETENCY_COLUMNS) :
            competency_file.value.rows[p][c] # NaN}

\* the normalized competency name of the row at position p of the matrix file
NameOfRow(p) ==
    normalize_spaces(FillNa(competency_file.value.rows[p]["competency"], EmptyText))

\* the matrix file passes sanitation and has the two key text columns
Sanitizable ==
    /\ Range(REQUIRED_COMPETENCY_COLUMNS) \subseteq competency_file.value.columns
    /\ {"competency", "competency_description"} \subseteq competency_file.value.columns

\* C12: the grouping is stable: from a matrix file that passes sanitation the
\* builder returns one competency for each distinct non-empty normalized
\* competency name of the sanitized rows, no two of them share a name, and each
\* has as many indicators as there are sanitized rows carrying its name.
C12_OneCompetencyPerNameWithItsRows ==
    (MatrixDone /\ Sanitizable) =>
        LET out == competency_matrix.value
        IN  /\ raised = NoError
            /\ {out[k].competency : k \in 1..Len(out)} =
                  {NameOfRow(p) : p \in SanitizedRows} \ {EmptyText}
            /\ \A i, k \in 1..Len(out) : i # k => out[i].competency # out[k].competency
            /\ \A k \in 1..Len(out) :
                  Len(out[k].indicators) =
                      Cardinality({p \in SanitizedRows : NameOfRow(p) = out[k].competency})

\* two rows whose names differ only in white space make one competency with
\* two indicators
C12_Witness ==
    /\ MatrixDone /\ raised = NoError
    /\ Len(competency_file.value.rows) = 2
    /\ competency_file.value.rows[1]["competency"] # competency_file.value.rows[2]["competency"]
    /\ Len(competency_matrix.value) = 1
    /\ Len(competency_matrix.value[1].indicators) = 2

\* C13 (as claimed): a matrix file of the documented shape, every cell filled,
\* is accepted: no error for missing columns, and a single row gives one
\* Competency that holds one Indicator.
C13_DocumentedShapeAccepted ==
    (MatrixDone /\ competency_file.value.columns = DocumentedColumns
                /\ \A p \in 1..Len(competency_file.value.rows) :
                       \A c \in DocumentedColumns : competency_file.value.rows[p][c] # NaN) =>
        /\ raised = NoError
        /\ Len(competency_file.value.rows) = 1 =>
              /\ Len(competency_matrix.value) = 1
              /\ Len(competency_matrix.value[1].indicators) = 1

PipelineDone == pc = "process_all_inputs"

\* the entries of a payload that carry a list of competencies
EntriesOf(payload) ==
    (IF payload.open_questions.none THEN {} ELSE Range(payload.open_questions.value))
    \cup (IF payload.dilemmas.none THEN {} ELSE Range(payload.dilemmas.value))
    \cup (IF payload.mini_cases.none THEN {} ELSE Range(payload.mini_cases.value))
    \cup (IF payload.big_cases.none THEN {} ELSE Range(payload.big_cases.value))

\* the competency names a payload's tasks refer to
ReferencedBy(payload) ==
    UNION {Range(e.competencies) : e \in EntriesOf(payload)}
    \cup (IF payload.statements.none THEN {}
          ELSE UNION {Range(SplitParts(e.competency)) : e \in Range(payload.statements.value)})

\* the competency names of a payload's matrix
MatrixNamesOf(payload) ==
    IF payload.competency_matrix.none THEN {}
    ELSE {c.competency : c \in Range(payload.competency_matrix.value)}

\* C2 (as claimed): process_all_inputs returns payloads only for validated
\* inputs: in every payload built from a matrix file, every competency a task
\* refers to is the name of a competency of the payload's matrix, and no name
\* of the matrix holds a comma or a parenthesis.
C2_PayloadsOnlyForValidatedInputs ==
    (PipelineDone /\ raised = NoError) =>
        \A k \in 1..Len(all_payloads) :
            ~all_payloads[k].payload.competency_matrix.none =>
                /\ ReferencedBy(all_payloads[k].payload) \subseteq
                       MatrixNamesOf(all_payloads[k].payload)
                /\ \A name \in MatrixNamesOf(all_payloads[k].payload) :
                       ~ContainsAny(name, {",", "(", ")"})

\* the join was made and the matrix file, if there is one, passes sanitation and
\* has its key columns: the assembly loop is entered
AssemblyEntered ==
    /\ PipelineDone /\ joined /\ merged_df # NoTable
    /\ competency_file.none \/ Sanitizable

\* the Email values of the merged table
EmailsOfMerged == {merged_df.rows[p]["Email"] : p \in 1..Len(merged_df.rows)} \ {NaN}

\* the position of the first merged row of an email
FirstRowOf(email) ==
    CHOOSE p \in 1..Len(merged_df.rows) :
        /\ merged_df.rows[p]["Email"] = email
        /\ \A q \in 1..(p - 1) : merged_df.rows[q]["Email"] # email

\* C14 (as claimed): process_all_inputs returns one request for each distinct
\* Email value of the merged table and no other, each keyed by its email with
\* user_email equal to the key, in first-seen order of the emails.
C14_OneRequestPerEmailInOrder ==
    AssemblyEntered =>
        /\ {all_payloads[k].email : k \in 1..Len(all_payloads)} = EmailsOfMerged
        /\ \A i, k \in 1..Len(all_payloads) :
              i < k => /\ all_payloads[i].email # all_payloads[k].email
                       /\ FirstRowOf(all_payloads[i].email) < FirstRowOf(all_payloads[k].email)
        /\ \A k \in 1..Len(all_payloads) :
              all_payloads[k].payload.user_email = all_payloads[k].email

\* positions of the merged rows of an email whose normalized chapter label is
\* the label
RowsIn(email, label) ==
    {p \in 1..Len(merged_df.rows) :
        /\ merged_df.rows[p]["Email"] = email
        /\ normalize_spaces(FillNa(merged_df.rows[p]["Nazvanie_glavy"], EmptyText)) = label}

\* the answer an entry built from the merged row at position p carries
AnswerOf(p) ==
    safe_value(clean_text(FillNa(merged_df.rows[p]["Otvet_uchastnika"], EmptyText)), EmptyText)

\* a statements entry is the one of the merged row at position p
StatementOfRow(e, p) ==
    /\ e.answer = AnswerOf(p)
    /\ e.competency = safe_value(merged_df.rows[p]["Kompetentsii"], EmptyText)

\* an entry with a competency list is the one of the merged row at position p
CaseOfRow(e, p) ==
    /\ e.answer = AnswerOf(p)
    /\ e.competencies = competencies_list(merged_df.rows[p])

\* a collection is None when S is empty, and otherwise the list of the entries
\* of the rows at the positions S, in row order
FollowsRows(collection, S, OfRow(_, _)) ==
    /\ collection.none <=> S = {}
    /\ ~collection.none =>
          /\ Len(collection.value) = Cardinality(S)
          /\ \A i \in 1..Len(collection.value) : OfRow(collection.value[i], KthOf(S, i))

\* C15: in every returned request each of the five collections is None exactly
\* when the participant has no merged row whose normalized chapter label is the
\* category's label, and otherwise is the list of one entry per such row, in
\* row order; no collection is an empty list.
C15_CollectionsFollowBuckets ==
    (PipelineDone /\ raised = NoError) =>
        \A k \in 1..Len(all_payloads) :
            LET email   == all_payloads[k].email
                payload == all_payloads[k].payload
            IN  /\ FollowsRows(payload.statements, RowsIn(email, StatementsLabel), StatementOfRow)
                /\ FollowsRows(payload.open_questions, RowsIn(email, OpenQuestionsLabel), CaseOfRow)
                /\ FollowsRows(payload.dilemmas, RowsIn(email, DilemmasLabel), CaseOfRow)
                /\ FollowsRows(payload.mini_cases, RowsIn(email, MiniCasesLabel), CaseOfRow)
                /\ FollowsRows(payload.big_cases, RowsIn(email, BigCasesLabel), CaseOfRow)

\* a participant whose rows are all in the chapter of the dilemmas, two of them
\* with different competencies: dilemmas is populated and the other four
\* collections are None
C15_Witness ==
    /\ PipelineDone /\ raised = NoError
    /\ \E k \in 1..Len(all_payloads) :
          LET payload == all_payloads[k].payload
          IN  /\ ~payload.dilemmas.none
              /\ Len(payload.dilemmas.value) = 2
              /\ payload.dilemmas.value[1] # payload.dilemmas.value[2]
              /\ payload.statements.none /\ payload.open_questions.none
              /\ payload.mini_cases.none /\ payload.big_cases.none


\* the positions where the separator sep occurs in the text s
CutsOf(s, sep) == {i \in 1..(Len(s) - Len(sep) + 1) : SubSeq(s, i, i + Len(sep) - 1) = sep}

\* the part of s that starts at position a: up to the next separator or the end
PartFrom(s, sep, a) ==
    LET later == {i \in CutsOf(s, sep) : i >= a}
    IN  IF later = {} THEN SubSeq(s, a, Len(s))
        ELSE SubSeq(s, a, (CHOOSE i \in later : \A j \in later : i <= j) - 1)

\* the trimmed non-empty parts of a reference cell between the occurrences of
\* sep, in order of occurrence; none for a missing or blank cell
ReferenceList(cell, sep) ==
    IF cell = NaN THEN <<>>
    ELSE LET starts == {1} \cup {i + Len(sep) : i \in CutsOf(cell, sep)}
             kept   == {a \in starts : Strip(PartFrom(cell, sep, a)) # <<>>}
         IN  [k \in 1..Cardinality(kept) |-> Strip(PartFrom(cell, sep, KthOf(kept, k)))]

\* the entry at place i of a collection has the lists of the merged row it comes from
ListsOfRows(collection, S) ==
    ~collection.none =>
        \A i \in 1..Len(collection.value) :
            LET row   == merged_df.rows[KthOf(S, i)]
                entry == collection.value[i]
            IN  /\ entry.competencies = ReferenceList(row["Kompetentsii"], <<",">>)
                /\ entry.indicators = ReferenceList(row["Indikatory"], <<";", "\n">>)
                /\ \A list \in {entry.competencies, entry.indicators} :
                      \A j \in 1..Len(list) : list[j] # <<>> /\ Strip(list[j]) = list[j]
                /\ "competency" \notin DOMAIN entry

C16_WitnessBlank ==
    /\ PipelineDone /\ raised = NoError
    /\ Len(all_payloads) = 1
    /\ LET payload == all_payloads[1].payload
       IN  /\ ~payload.dilemmas.none
           /\ payload.dilemmas.value[1].competencies = <<>>
           /\ payload.dilemmas.value[1].indicators = <<>>
           /\ merged_df.rows[3]["Kompetentsii"] = <<" ">>

\* the position of the first row of the answers table with the email
FirstAnswerOf(email) ==
    CHOOSE p \in 1..Len(df1.rows) :
        /\ df1.rows[p]["Email"] = email
        /\ \A q \in 1..(p - 1) : df1.rows[q]["Email"] # email

\* C17 (as claimed): every returned request carries the display name of the
\* participant's first merged row (the email when it is blank), and whenever
\* the participant's first answers row has a non-empty position title the
\* request's position_title equals it.
C17_NameAndPositionFromFirstRow ==
    (PipelineDone /\ raised = NoError) =>
        \A k \in 1..Len(all_payloads) :
            LET email    == all_payloads[k].email
                payload  == all_payloads[k].payload
                position == df1.rows[FirstAnswerOf(email)]["Pozitsiya"]
            IN  /\ payload.user_name =
                      safe_value(merged_df.rows[FirstRowOf(email)]["FIO"], email)
                /\ (position # NaN /\ Strip(position) # <<>>) =>
                       payload.position_title = position

-----------------------------------------------------------------------------
(* Claims about the report page *)

\* process_all_inputs has been awaited by the page
Processed == pc \in {"loop", "rendered"} /\ df1 # NoTable

\* the tasks file lacks a column of cols_tasks
TaskColumnsMissing == \E c \in Range(cols_tasks) : c \notin df2.columns

\* no answers row names a task of a tasks row
NothingJoins ==
    ~\E p \in 1..Len(df1.rows), q \in 1..Len(df2.rows) :
        /\ df2.rows[q]["Nazvanie_zadaniya"] # NaN
        /\ df1.rows[p]["Nazvanie_zadaniya"] = df2.rows[q]["Nazvanie_zadaniya"]

\* the matrix file lacks a required column, so its sanitation fails
MatrixUnsanitizable ==
    \E c \in Range(REQUIRED_COMPETENCY_COLUMNS) : c \notin competency_file.value.columns

\* the payloads the page has are those of all the participants of the merged table
AllAssembled ==
    /\ raised = NoError
    /\ results = all_payloads
    /\ {results[k].email : k \in 1..Len(results)} =
           {merged_df.rows[p]["Email"] : p \in 1..Len(merged_df.rows)}

\* C18: once the page has awaited process_all_inputs, a failed column check of
\* the tasks table, a join without rows or a failed sanitation of the matrix
\* file leaves no payload of any participant and no call of the evaluation
\* API, now or later; and whenever a call of the API has been made, the
\* payloads of all the participants had been assembled before.
C18_ErrorsAbortBatch ==
    /\ (Processed /\ (TaskColumnsMissing \/ NothingJoins \/ MatrixUnsanitizable)) =>
           /\ raised # NoError
           /\ all_payloads = <<>> /\ results = <<>>
           /\ api_calls = <<>>
           /\ pc = "rendered"
    /\ ~Processed => api_calls = <<>>
    /\ api_calls # <<>> => AllAssembled

\* two participants whose answers join and a matrix file without 'name' and
\* 'description': the page ends with one error message and no call
C18_Witness ==
    /\ pc = "rendered" /\ Processed
    /\ ~TaskColumnsMissing /\ ~NothingJoins /\ MatrixUnsanitizable
    /\ {merged_df.rows[p]["Email"] : p \in 1..Len(merged_df.rows)} = {<<"u1">>, <<"u2">>}
    /\ api_calls = <<>> /\ all_payloads = <<>>
    /\ st_calls = <<"error">>

\* C19: every call of send_to_assessment_api returns, with an error string or
\* with a response that has a status code, and raises nothing; the calls made
\* so far are those of the first payloads of the page, one call each, in
\* payload order; and when the page is through, every payload has had its one
\* call, whatever the calls before it returned.
C19_OneCallPerPayloadInOrder ==
    /\ \A k \in 1..Len(api_calls) :
          /\ ~api_calls[k].raised
          /\ api_calls[k].response.is_str \/ api_calls[k].response.status_code \in {200, 500}
          /\ k <= Len(results)
          /\ api_calls[k].email = results[k].email
          /\ api_calls[k].payload = results[k].payload
          /\ api_calls[k].api_url = api_url
    /\ pc = "loop" => Len(api_calls) = idx
    /\ (pc = "rendered" /\ results # <<>>) => Len(api_calls) = Len(results)

\* two participants: the call for the first returned an error string, the call
\* for the second was made all the same and returned status 500, and the page
\* is through
C19_Witness ==
    /\ pc = "rendered"
    /\ Len(results) = 2 /\ Len(api_calls) = 2
    /\ api_calls[1].response.is_str
    /\ api_calls[2].email = results[2].email
    /\ ~api_calls[2].response.is_str /\ api_calls[2].response.status_code = 500

-----------------------------------------------------------------------------
(* Claims about the legacy pipeline *)

LegacyDone == pc = "process_excel_files"

\* the distinct Email values of the sanitized answers table
LegacyEmails == {df_qa.rows[p]["Email"] : p \in 1..Len(df_qa.rows)}

\* the positions of the sanitized answers rows of an email
LegacyRowsOf(email) == {p \in 1..Len(df_qa.rows) : df_qa.rows[p]["Email"] = email}

\* C21 (as claimed): when process_excel_files returns, it returns one tuple
\* for each distinct Email value of the sanitized answers table, never fewer,
\* and the payload of a tuple holds exactly the entries of the rows of its
\* email, in row order.
C21_OneTuplePerEmail ==
    (LegacyDone /\ raised = NoError) =>
        /\ Len(all_payloads) >= Cardinality(LegacyEmails)
        /\ {all_payloads[k].email : k \in 1..Len(all_payloads)} = LegacyEmails
        /\ \A i, k \in 1..Len(all_payloads) :
              i # k => all_payloads[i].email # all_payloads[k].email
        /\ \A k \in 1..Len(all_payloads) :
              LET email   == all_payloads[k].email
                  entries == all_payloads[k].payload.questions_and_answers
              IN  /\ Len(entries) = Cardinality(LegacyRowsOf(email))
                  /\ \A i \in 1..Len(entries) :
                        entries[i].question = df_qa.rows[KthOf(LegacyRowsOf(email), i)]["Vopros"]

\* C22: a missing column is recorded and the other checks still run. Without
\* 'competency' in the matrix the raised message starts with that violation,
\* has no line of the three matrix checks, reports the parentheses of the
\* answers when there are any, and lists every referenced name as unknown.
\* Without 'Компетенции' in the answers the raised message has that violation,
\* the lines of the three matrix checks exactly as the matrix calls for them,
\* and no parentheses line of the answers and no unknown-reference line.
C22_MissingColumnRecorded ==
    ValidateDone =>
        /\ "competency" \notin df_competency.columns =>
              /\ raised.type = "ValueError"
              /\ RaisedLines[1].kind = "no_competency_column"
              /\ Len(LinesOfKind("no_competency_column")) = 1
              /\ LinesOfKind("matrix_comma") = <<>>
              /\ LinesOfKind("matrix_parentheses") = <<>>
              /\ LinesOfKind("matrix_empty") = <<>>
              /\ Len(LinesOfKind("qa_parentheses")) = (IF QaParenthesesRows # {} THEN 1 ELSE 0)
              /\ Len(LinesOfKind("missing_in_matrix")) = (IF ReferencedNames # {} THEN 1 ELSE 0)
              /\ ReferencedNames # {} =>
                    /\ Range(LinesOfKind("missing_in_matrix")[1].items) = ReferencedNames
                    /\ NoDuplicates(LinesOfKind("missing_in_matrix")[1].items)
        /\ "Kompetentsii" \notin df_qa.columns =>
              /\ raised.type = "ValueError"
              /\ Len(LinesOfKind("no_qa_column")) = 1
              /\ Len(LinesOfKind("matrix_comma")) = (IF CommaNames # {} THEN 1 ELSE 0)
              /\ Len(LinesOfKind("matrix_parentheses")) = (IF ParenthesesNames # {} THEN 1 ELSE 0)
              /\ Len(LinesOfKind("matrix_empty")) = (IF HasEmptyName THEN 1 ELSE 0)
              /\ LinesOfKind("qa_parentheses") = <<>>
              /\ LinesOfKind("missing_in_matrix") = <<>>

\* the matrix has no 'competency' column, an answers row carries a
\* parenthesis and two names are referenced: three lines are raised
C22_Witness ==
    /\ ValidateDone
    /\ "competency" \notin df_competency.columns
    /\ Len(df_competency.rows) > 0
    /\ QaParenthesesRows # {}
    /\ Cardinality(ReferencedNames) >= 2
    /\ Len(RaisedLines) = 3
    /\ LinesOfKind("qa_parentheses") # <<>>
    /\ LinesOfKind("missing_in_matrix") # <<>>

\* the answers have no 'Компетенции' column and the matrix breaks two of its
\* rules: both are reported next to the missing column
C22_WitnessAnswers ==
    /\ ValidateDone
    /\ "Kompetentsii" \notin df_qa.columns
    /\ LinesOfKind("no_qa_column") # <<>>
    /\ LinesOfKind("matrix_comma") # <<>>
    /\ LinesOfKind("matrix_empty") # <<>>

\* the pairs (answer row, task row) with the same, non-missing task name
MatchingPairs ==
    {pq \in (1..Len(df1.rows)) \X (1..Len(df2.rows)) :
        /\ df1.rows[pq[1]]["Nazvanie_zadaniya"] # NaN
        /\ df1.rows[pq[1]]["Nazvanie_zadaniya"] = df2.rows[pq[2]]["Nazvanie_zadaniya"]}

\* the row a pair stands for: the kept cells of the answer row and the cells
\* of the task row
RowOfPair(pq) ==
    [c \in Range(cols_answers) \cup Range(cols_tasks) |->
        IF c \in Range(cols_answers) THEN df1.rows[pq[1]][c] ELSE df2.rows[pq[2]][c]]

\* C23: when at least one answer row and task row carry the same non-missing
\* task name, df_from_files returns without error or diagnostic, and the rows
\* of the merged table are the rows of the matching pairs, one for each pair
\* and no other; so an answer row without a task, a task row without an
\* answer and a task row with an empty name leave no row.
C23_OneRowPerMatchingPair ==
    (JoinDone /\ Range(cols_tasks) \subseteq df2.columns /\ MatchingPairs # {}) =>
        /\ raised = NoError
        /\ warnings = <<>>
        /\ Len(merged_df.rows) = Cardinality(MatchingPairs)
        /\ \A k \in 1..Len(merged_df.rows) :
              \E pq \in MatchingPairs : merged_df.rows[k] = RowOfPair(pq)
        /\ \A pq \in MatchingPairs :
              Cardinality({k \in 1..Len(merged_df.rows) : merged_df.rows[k] = RowOfPair(pq)})
                  = Cardinality({pq2 \in MatchingPairs : RowOfPair(pq2) = RowOfPair(pq)})

\* one answer matches a task row and one names a task that is not there, the
\* other task row has an empty name: one merged row
C23_Witness ==
    /\ JoinDone /\ raised = NoError
    /\ Len(df1.rows) = 2 /\ Len(df2.rows) = 2
    /\ Cardinality(MatchingPairs) = 1
    /\ \E q \in 1..2 : df2.rows[q]["Nazvanie_zadaniya"] = NaN
    /\ \E p \in 1..2 : /\ df1.rows[p]["Nazvanie_zadaniya"] # NaN
                       /\ \A q \in 1..2 : <<p, q>> \notin MatchingPairs
    /\ Len(merged_df.rows) = 1

\* positions of the sanitized rows of the matrix file with a non-empty
\* normalized competency name
NamedRows == {p \in SanitizedRows : NameOfRow(p) # EmptyText}

\* positions of the sanitized rows that carry the name
RowsNamed(name) == {p \in NamedRows : NameOfRow(p) = name}

\* C24: from a matrix file that passes sanitation the competencies come out
\* in the order in which their names are first seen in the file, the
\* indicators of a competency are those of its rows in row order, and a row
\* with an empty normalized name gives neither a competency nor an indicator.
C24_EncounterOrderKept ==
    (MatrixDone /\ Sanitizable) =>
        LET out == competency_matrix.value
        IN  /\ raised = NoError
            /\ \A k \in 1..Len(out) : RowsNamed(out[k].competency) # {}
            /\ \A i, k \in 1..Len(out) :
                  i < k => KthOf(RowsNamed(out[i].competency), 1)
                               < KthOf(RowsNamed(out[k].competency), 1)
            /\ \A k \in 1..Len(out) :
                  /\ Len(out[k].indicators) = Cardinality(RowsNamed(out[k].competency))
                  /\ \A j \in 1..Len(out[k].indicators) :
                        LET row == competency_file.value.rows[
                                       KthOf(RowsNamed(out[k].competency), j)]
                        IN  out[k].indicators[j].name =
                                IF "indicator_name" \in DOMAIN row
                                THEN normalize_spaces(row["indicator_name"])
                                ELSE EmptyText
            /\ NamedRows = {} => out = <<>>

\* the rows ('a', i) and ('a ', j): one competency whose indicators are i, j
C24_Witness ==
    /\ MatrixDone /\ raised = NoError
    /\ Len(competency_file.value.rows) = 2
    /\ Len(competency_matrix.value) = 1
    /\ Len(competency_matrix.value[1].indicators) = 2
    /\ competency_matrix.value[1].indicators[1].name = <<"i">>
    /\ competency_matrix.value[1].indicators[2].name = <<"j">>

\* a row with a name of white space before a row of 'b': 'b' alone comes out
C24_WitnessUnnamed ==
    /\ MatrixDone /\ raised = NoError
    /\ Len(competency_file.value.rows) = 2
    /\ NameOfRow(1) = EmptyText
    /\ Len(competency_matrix.value) = 1
    /\ competency_matrix.value[1].competency = <<"b">>

\* the weight cell holds a number
ParsesAsNumber(cell) ==
    /\ cell # NaN
    /\ Strip(cell) # <<>>
    /\ \A i \in 1..Len(Strip(cell)) : Strip(cell)[i] \in Digits

\* C25 (as claimed): the weight and the description of a competency are those
\* of the first row of its name: the weight is the number in that row's
\* weight cell, or 50.0 when the cell holds no number or the file has no
\* weight column; the weight cells of later rows of the name change nothing.
C25_WeightFromFirstRow ==
    (MatrixDone /\ Sanitizable) =>
        LET out == competency_matrix.value
        IN  \A k \in 1..Len(out) :
                LET first == competency_file.value.rows[KthOf(RowsNamed(out[k].competency), 1)]
                IN  /\ out[k].competency_description =
                          normalize_spaces(FillNa(first["competency_description"], EmptyText))
                    /\ out[k].weight =
                          IF "weight" \in DOMAIN first /\ ParsesAsNumber(first["weight"])
                          THEN Strip(first["weight"])
                          ELSE DefaultWeight

-----------------------------------------------------------------------------
(* Claims about clean_text *)

TextDone == pc = "clean_text"

\* the text s holds the artifact somewhere
HasArtifact(s) ==
    \E i \in 1..(Len(s) - Len(Artifact) + 1) : SubSeq(s, i, i + Len(Artifact) - 1) = Artifact

\* every run of white space of s is one blank, and none stands at an end
Canonical(s) ==
    /\ \A i \in 1..Len(s) : s[i] \in Whitespace => s[i] = " "
    /\ \A i \in 1..(Len(s) - 1) : ~(s[i] = " " /\ s[i + 1] = " ")
    /\ s # <<>> => (s[1] # " " /\ s[Len(s)] # " ")

\* C26 (as claimed): for every text clean_text returns a text without the
\* artifact '_x000D_' in which every run of white space is one blank and
\* none stands at the start or the end; for None it returns the empty text.
C26_CleanTextCanonical ==
    TextDone =>
        /\ ~HasArtifact(cleaned_text)
        /\ Canonical(cleaned_text)
        /\ raw_text = None => cleaned_text = EmptyText

-----------------------------------------------------------------------------
(* Claims about the assembly loop of process_all_inputs *)

\* the loop is under way or over
Assembling == pc \in {"for email in emails", "process_all_inputs"}

\* the step builds the request of one participant
BuildsOne == AssembleOne /\ Len(all_payloads') = Len(all_payloads) + 1

\* C27: every request built in a run carries the competency matrix of the
\* run, its assessment type, its assessment info and the webhook address
\* 'https://ntfy.sh/assessment'; and the step that builds the request of one
\* participant leaves the competency matrix, the merged table and the
\* requests built before it as they were.
C27_SharedFieldsAndFrame ==
    /\ [](Assembling =>
            \A k \in 1..Len(all_payloads) :
                LET payload == all_payloads[k].payload
                IN  /\ payload.competency_matrix = competency_matrix
                    /\ payload.assessment_type = assessment_type
                    /\ payload.assessment_info = assessment_info
                    /\ payload.webhook_url = "https://ntfy.sh/assessment")
    /\ [][BuildsOne =>
            /\ competency_matrix' = competency_matrix
            /\ merged_df' = merged_df
            /\ \A k \in 1..Len(all_payloads) : all_payloads'[k] = all_payloads[k]]_vars

\* two requests are returned with a matrix of one competency, the second
\* built while the first was there; a label of the merged table is padded
C27_Witness ==
    /\ pc = "process_all_inputs" /\ raised = NoError
    /\ Len(all_payloads) = 2
    /\ ~competency_matrix.none /\ Len(competency_matrix.value) >= 1
    /\ all_payloads[1].payload.competency_matrix = all_payloads[2].payload.competency_matrix

\* the loop turn has stored its request
TurnDone == pc = "all_payloads[email] = combined_request"

\* the step changes, of the lists and of the request, at most the list and the
\* field of one processor
TouchesOnly(field) ==
    /\ \A other \in CollectionFields \ {field} : lists'[other] = lists[other]
    /\ \A key \in DOMAIN request \ {field} : request'[key] = request[key]

\* C28: the five per-category processors of one participant are independent:
\* a step of a processor changes only its own list and its own field of the
\* request, and whatever the order in which their rows are processed, the
\* request stored is the one the sequential order statements, dilemmas, open
\* questions, mini-cases, big-cases gives.
C28_TransformsIndependent ==
    /\ [](TurnDone =>
            all_payloads[1].payload =
                combined_request(TurnEmail, RowsOfEmail(merged_df, TurnEmail),
                                 competency_matrix, assessment_info, assessment_type))
    /\ [][/\ ProcessStatementInputs => TouchesOnly("statements")
          /\ ProcessDilemmaInputs => TouchesOnly("dilemmas")
          /\ ProcessOpenQuestionInputs => TouchesOnly("open_questions")
          /\ ProcessMiniCaseInputs => TouchesOnly("mini_cases")
          /\ ProcessBigCaseInputs => TouchesOnly("big_cases")]_vars

\* a request stored while a big case was processed between the two dilemmas of
\* the participant: the dilemmas field is still unset with one dilemma in its
\* list when the big-cases field is set
C28_Witness ==
    /\ pc = "process each task type"
    /\ Len(BucketOf("dilemmas")) = 2 /\ Len(lists.dilemmas) = 1
    /\ request.dilemmas = None
    /\ request.big_cases # None

\* the five labels of the vocabulary
VocabularyLabels ==
    {StatementsLabel, OpenQuestionsLabel, DilemmasLabel, MiniCasesLabel, BigCasesLabel}

\* the positions of the merged rows of an email
MergedRowsOf(email) ==
    {p \in 1..Len(merged_df.rows) : merged_df.rows[p]["Email"] = email}

\* the normalized chapter label of the merged row at position p
LabelOfRow(p) == normalize_spaces(FillNa(merged_df.rows[p]["Nazvanie_glavy"], EmptyText))

\* the number of entries of a collection
Size(collection) == IF collection.none THEN 0 ELSE Len(collection.value)

\* the collection of a payload that the label fills
CollectionOf(payload, label) ==
    CASE label = StatementsLabel    -> payload.statements
      [] label = OpenQuestionsLabel -> payload.open_questions
      [] label = DilemmasLabel      -> payload.dilemmas
      [] label = MiniCasesLabel     -> payload.mini_cases
      [] label = BigCasesLabel      -> payload.big_cases

\* the entries of the five collections of a payload, counted
TotalEntries(payload) ==
    Size(payload.statements) + Size(payload.open_questions) + Size(payload.dilemmas)
        + Size(payload.mini_cases) + Size(payload.big_cases)

\* C29: in every returned request the collection of each vocabulary label has
\* as many entries as the participant has merged rows with that normalized
\* label, so the entries of the five collections together are as many as the
\* participant's rows with a label of the vocabulary and a row with another
\* label leaves no entry; a participant with merged rows but none under a
\* label of the vocabulary has a request all the same, its five collections
\* None, and the run raises nothing and warns of nothing.
C29_BucketPartition ==
    (PipelineDone /\ raised = NoError) =>
        /\ \A k \in 1..Len(all_payloads) :
              LET payload == all_payloads[k].payload
                  mine    == MergedRowsOf(all_payloads[k].email)
              IN  /\ \A label \in VocabularyLabels :
                        Size(CollectionOf(payload, label))
                            = Cardinality({p \in mine : LabelOfRow(p) = label})
                  /\ TotalEntries(payload)
                        = Cardinality({p \in mine : LabelOfRow(p) \in VocabularyLabels})
        /\ \A email \in EmailsOfMerged :
              (\A p \in MergedRowsOf(email) : LabelOfRow(p) \notin VocabularyLabels) =>
                  /\ \E k \in 1..Len(all_payloads) :
                        /\ all_payloads[k].email = email
                        /\ TotalEntries(all_payloads[k].payload) = 0
                        /\ \A label \in VocabularyLabels :
                              CollectionOf(all_payloads[k].payload, label) = None
                  /\ competency_file = None => warnings = <<>>

\* a returned request of a participant whose only merged row has a label
\* outside the vocabulary, next to a request with an entry from a row whose
\* label was padded
C29_Witness ==
    /\ PipelineDone /\ raised = NoError
    /\ competency_file = None
    /\ \E k \in 1..Len(all_payloads) :
          /\ MergedRowsOf(all_payloads[k].email) # {}
          /\ \A p \in MergedRowsOf(all_payloads[k].email) : LabelOfRow(p) \notin VocabularyLabels
    /\ \E k \in 1..Len(all_payloads) :
          /\ TotalEntries(all_payloads[k].payload) = 1
          /\ \E p \in MergedRowsOf(all_payloads[k].email) :
                /\ LabelOfRow(p) = MiniCasesLabel
                /\ merged_df.rows[p]["Nazvanie_glavy"] # MiniCasesLabel

\* a returned request of a participant with a row under a vocabulary label and
\* a row under another label: one entry for two rows
C29_WitnessMixed ==
    /\ PipelineDone /\ raised = NoError
    /\ \E k \in 1..Len(all_payloads) :
          /\ Cardinality(MergedRowsOf(all_payloads[k].email)) = 2
          /\ TotalEntries(all_payloads[k].payload) = 1

\* C30 (as claimed): for every merged table the Task Merger returns, a table
\* with a row whose Email cell is empty included, process_all_inputs completes
\* without an exception and every merged row belongs to exactly one returned
\* request, the one whose user_email is the Email value of the row.
C30_EveryRowInOneRequest ==
    AssemblyEntered =>
        /\ raised = NoError
        /\ \A p \in 1..Len(merged_df.rows) :
              Cardinality({k \in 1..Len(all_payloads) :
                              all_payloads[k].payload.user_email
                                  = merged_df.rows[p]["Email"]}) = 1
=============================================================================
